---------------------------- MODULE Spec2Model ----------------------------
(***************************************************************************)
(* Transaction reconciliation of sql-golang-playground: the external feed  *)
(* loader, the type normalizer and the matcher of reconciliation.go (and   *)
(* their copies in the service and util packages).                         *)
(*                                                                         *)
(* Go strings are sequences of one-character strings, so that upper-casing *)
(* and trimming are computed and not assumed.  A float64 amount is an      *)
(* number or the value NaN; == on amounts is AmountEq.                     *)
(***************************************************************************)
EXTENDS Integers, Sequences, FiniteSets, TLC

(***************************************************************************)
(* Bounds of the model.                                                    *)
(***************************************************************************)
\* total number of records in the two inputs of one matcher run
MaxRecords == 4

\* number of data rows of an external feed
MaxRows == 4

\* the largest number of rows of the transactions table of a whole run
MaxTableRows == 2

\* the largest number of records, ledger and external together, of the
\* first of two runs side by side
MaxPairRecords == 2

\* the largest number of events the server sends to the binlog consumer
MaxEvents == 2
MaxMixedRecords == 3

(***************************************************************************)
(* Strings.                                                                *)
(***************************************************************************)
LowerLetters == <<"a","b","c","d","e","f","g","h","i","j","k","l","m",
                  "n","o","p","q","r","s","t","u","v","w","x","y","z">>
UpperLetters == <<"A","B","C","D","E","F","G","H","I","J","K","L","M",
                  "N","O","P","Q","R","S","T","U","V","W","X","Y","Z">>

\* the upper-case letter of every lower-case letter
UpperOf ==
    [c \in { LowerLetters[k] : k \in 1..Len(LowerLetters) } |->
        UpperLetters[CHOOSE k \in 1..Len(LowerLetters) : LowerLetters[k] = c]]

ToUpperChar(c) == IF c \in DOMAIN UpperOf THEN UpperOf[c] ELSE c

\* strings.ToUpper
ToUpper(s) == [k \in 1..Len(s) |-> ToUpperChar(s[k])]

DEPOSIT           == <<"D","E","P","O","S","I","T">>
WITHDRAWAL        == <<"W","I","T","H","D","R","A","W","A","L">>
TRANSFER          == <<"T","R","A","N","S","F","E","R">>
TRANSFER_OUT      == <<"T","R","A","N","S","F","E","R","_","O","U","T">>
TRANSFER_IN       == <<"T","R","A","N","S","F","E","R","_","I","N">>
INTERNAL_TRANSFER == <<"I","N","T","E","R","N","A","L","_",
                       "T","R","A","N","S","F","E","R">>

(***************************************************************************)
(* sql.NullInt64 and float64.                                              *)
(***************************************************************************)
NullInt64(v, valid) == [Int64 |-> v, Valid |-> valid]
Null == NullInt64(0, FALSE)

Float(v) == [nan |-> FALSE, val |-> v]
NaN == [nan |-> TRUE, val |-> 0]

\* the == of two float64 values: NaN equals nothing, itself included
AmountEq(a, b) == ~a.nan /\ ~b.nan /\ a.val = b.val

(***************************************************************************)
(* strings.TrimSpace and strconv.ParseFloat.  The feeds of the model hold  *)
(* no white space but the space, and amounts written as decimal digits     *)
(* with an optional sign, as NaN, or as text that is no number.            *)
(***************************************************************************)
RECURSIVE TrimLeft(_)
TrimLeft(s) == IF s # <<>> /\ Head(s) = " " THEN TrimLeft(Tail(s)) ELSE s

RECURSIVE TrimRight(_)
TrimRight(s) ==
    IF s # <<>> /\ s[Len(s)] = " " THEN TrimRight(SubSeq(s, 1, Len(s) - 1))
    ELSE s

TrimSpace(s) == TrimRight(TrimLeft(s))

Digits == <<"0","1","2","3","4","5","6","7","8","9">>

IsDigit(c) == \E d \in 1..Len(Digits) : Digits[d] = c

DigitValue(c) == (CHOOSE d \in 1..Len(Digits) : Digits[d] = c) - 1

RECURSIVE DecimalValue(_)
DecimalValue(s) ==
    IF s = <<>> THEN 0
    ELSE 10 * DecimalValue(SubSeq(s, 1, Len(s) - 1)) + DigitValue(s[Len(s)])

\* strconv.ParseFloat(s, 64): the value and whether err == nil
ParseFloat(s) ==
    LET signed == s # <<>> /\ Head(s) \in {"+", "-"}
        body == IF signed THEN Tail(s) ELSE s
    IN
    IF ToUpper(s) = <<"N","A","N">> THEN [ok |-> TRUE, value |-> NaN]
    ELSE IF body # <<>> /\ \A k \in 1..Len(body) : IsDigit(body[k])
         THEN [ok |-> TRUE,
               value |-> Float(IF signed /\ Head(s) = "-"
                               THEN 0 - DecimalValue(body)
                               ELSE DecimalValue(body))]
    ELSE [ok |-> FALSE, value |-> Float(0)]

(***************************************************************************)
(* The type normalizer.                                                    *)
(***************************************************************************)
\* a normalizer that swaps the two one-sided transfers
normalizeDBTransactionType_Swapped(dbType, fromID, toID) ==
    LET up == ToUpper(dbType) IN
    IF up = DEPOSIT THEN DEPOSIT
    ELSE IF up = WITHDRAWAL THEN WITHDRAWAL
    ELSE IF up = TRANSFER /\ fromID.Valid /\ ~toID.Valid THEN TRANSFER_IN
    ELSE IF up = TRANSFER /\ ~fromID.Valid /\ toID.Valid THEN TRANSFER_OUT
    ELSE IF up = TRANSFER /\ fromID.Valid /\ toID.Valid THEN INTERNAL_TRANSFER
    ELSE up

\* a normalizer that takes a transfer with no to-account as outbound
normalizeDBTransactionType_NoFallback(dbType, fromID, toID) ==
    LET up == ToUpper(dbType) IN
    IF up = DEPOSIT THEN DEPOSIT
    ELSE IF up = WITHDRAWAL THEN WITHDRAWAL
    ELSE IF up = TRANSFER /\ ~toID.Valid THEN TRANSFER_OUT
    ELSE IF up = TRANSFER /\ ~fromID.Valid /\ toID.Valid THEN TRANSFER_IN
    ELSE IF up = TRANSFER /\ fromID.Valid /\ toID.Valid THEN INTERNAL_TRANSFER
    ELSE up

normalizeDBTransactionType(dbType, fromID, toID) ==
    LET up == ToUpper(dbType) IN
    IF up = DEPOSIT THEN DEPOSIT
    ELSE IF up = WITHDRAWAL THEN WITHDRAWAL
    ELSE IF up = TRANSFER /\ fromID.Valid /\ ~toID.Valid THEN TRANSFER_OUT
    ELSE IF up = TRANSFER /\ ~fromID.Valid /\ toID.Valid THEN TRANSFER_IN
    ELSE IF up = TRANSFER /\ fromID.Valid /\ toID.Valid THEN INTERNAL_TRANSFER
    ELSE up

\* a method of the service that leaves the type as the ledger spells it
s_normalizeDBTransactionType_NoUpper(dbType, fromID, toID) ==
    IF dbType = DEPOSIT THEN DEPOSIT
    ELSE IF dbType = WITHDRAWAL THEN WITHDRAWAL
    ELSE IF dbType = TRANSFER /\ fromID.Valid /\ ~toID.Valid THEN TRANSFER_OUT
    ELSE IF dbType = TRANSFER /\ ~fromID.Valid /\ toID.Valid THEN TRANSFER_IN
    ELSE IF dbType = TRANSFER /\ fromID.Valid /\ toID.Valid
         THEN INTERNAL_TRANSFER
    ELSE dbType

\* the method of reconciliationServiceImpl, the service's own copy
s_normalizeDBTransactionType(dbType, fromID, toID) ==
    LET up == ToUpper(dbType) IN
    IF up = DEPOSIT THEN DEPOSIT
    ELSE IF up = WITHDRAWAL THEN WITHDRAWAL
    ELSE IF up = TRANSFER /\ fromID.Valid /\ ~toID.Valid THEN TRANSFER_OUT
    ELSE IF up = TRANSFER /\ ~fromID.Valid /\ toID.Valid THEN TRANSFER_IN
    ELSE IF up = TRANSFER /\ fromID.Valid /\ toID.Valid THEN INTERNAL_TRANSFER
    ELSE up

(***************************************************************************)
(* State.                                                                  *)
(***************************************************************************)
VARIABLES
    dbTxs,              \* reconcileTransactions: the ledger transactions
    csvTxs,             \* reconcileTransactions: the external transactions
    processedDBTx,      \* set of TransactionIDs mapped to true
    processedCSVTx,     \* set of ExternalIDs mapped to true
    foundInBoth,        \* report entries of exact matches
    mismatchedAmounts,  \* report entries of type-only matches
    onlyInDB,           \* report entries of unmatched ledger transactions
    onlyInCSV,          \* report entries of unmatched external transactions
    i,                  \* position of the outer loop over dbTxs
    pc,                 \* position in reconcileTransactions
    report,             \* the lines printed on standard output
    normIn,             \* normalizeDBTransactionType: the arguments of a call
    normOut,            \* normalizeDBTransactionType: the value returned
    file,               \* the external feed at filePath
    reader,             \* the csv.Reader of LoadExternalTransactions
    transactions,       \* LoadExternalTransactions: the slice being built
    warnings,           \* the WARN lines logged by the loader
    loadResult,         \* the values LoadExternalTransactions returns
    lpc,                \* position in LoadExternalTransactions
    caller,             \* who runs the reconciliation: main or the service
    table,              \* the transactions table the run fetches from
    other,              \* the frame of a second, suspended run
    accounts,           \* the accounts table
    txLog,              \* the transactions table that TransferFunds logs to
    atStart,            \* the two tables as they were when the call began
    xfer,               \* the call of TransferFunds that is running
    peer,               \* a second call of TransferFunds, suspended
    hidden,             \* the accounts soft-deleted and not undeleted since
    lastCall,           \* the last call of an account function, its result
    sigCh,              \* binlog consumer: the channel of signal.Notify
    hpc,                \* position of the goroutine that waits for a signal
    mpc,                \* position of the event loop
    ctxDone,            \* the context of the event loop is canceled
    closed,             \* syncer.Close() has run
    ch,                 \* the streamer's channel of events
    ech,                \* the streamer's channel of errors
    ev,                 \* the event that GetEvent returned
    handled             \* the events handled so far, as the loop logs them

matcherVars == <<dbTxs, csvTxs, processedDBTx, processedCSVTx, foundInBoth,
                 mismatchedAmounts, onlyInDB, onlyInCSV, i, pc, report>>

normVars == <<normIn, normOut>>

loaderVars == <<file, reader, transactions, warnings, loadResult, lpc>>

runVars == <<caller, table, other>>

acctVars == <<hidden, lastCall>>
transferVars == <<accounts, txLog, atStart, xfer, peer, acctVars>>

binlogVars == <<sigCh, hpc, mpc, ctxDone, closed, ch, ech, ev, handled>>

vars ==
    <<matcherVars, normVars, loaderVars, runVars, transferVars, binlogVars>>

(***************************************************************************)
(* Inputs of the matcher.  A ledger transaction is drawn from LedgerKinds  *)
(* and Amounts, an external transaction from CSVTypes and CSVAmounts; ids  *)
(* are drawn up to renaming (the matcher only compares ids for equality),  *)
(* a repeated id included.                                                 *)
(***************************************************************************)
LedgerKinds ==
    { [TransactionType |-> <<"d","e","p","o","s","i","t">>,
       FromAccountID |-> Null, ToAccountID |-> NullInt64(1, TRUE)],
      [TransactionType |-> TRANSFER,
       FromAccountID |-> NullInt64(1, TRUE), ToAccountID |-> Null] }

Amounts == { Float(50), Float(100) }

CSVTypes == { DEPOSIT, TRANSFER_OUT }

CSVAmounts == { Float(50), Float(100) }

\* id patterns of n records: the ids are distinct, or one record repeats the
\* id of an earlier one
IDPatterns(n) ==
    { [k \in 1..n |-> k] } \cup
    { [k \in 1..n |-> IF k = pq[2] THEN pq[1] ELSE k] :
          pq \in { x \in (1..n) \X (1..n) : x[1] < x[2] } }

ExternalIDName == <<"E1", "E2", "E3", "E4", "E5", "E6">>

DBInputs(n) ==
    { [k \in 1..n |->
         [TransactionID   |-> ids[k],
          FromAccountID   |-> kinds[k].FromAccountID,
          ToAccountID     |-> kinds[k].ToAccountID,
          TransactionType |-> kinds[k].TransactionType,
          Amount          |-> amts[k]]] :
      ids \in IDPatterns(n), kinds \in [1..n -> LedgerKinds],
      amts \in [1..n -> Amounts] }

CSVInputs(n) ==
    { [k \in 1..n |->
         [ExternalID |-> ExternalIDName[ids[k]],
          Amount     |-> amts[k],
          Type       |-> types[k]]] :
      ids \in IDPatterns(n), types \in [1..n -> CSVTypes],
      amts \in [1..n -> CSVAmounts] }

(***************************************************************************)
(* The matcher.                                                            *)
(***************************************************************************)
\* normalizedDBType: the service calls its method, reconcileTransactions
\* the function
NormalizedType(dbTx) ==
    IF caller = "service"
    THEN s_normalizeDBTransactionType(dbTx.TransactionType,
                                      dbTx.FromAccountID, dbTx.ToAccountID)
    ELSE normalizeDBTransactionType(dbTx.TransactionType, dbTx.FromAccountID,
                                    dbTx.ToAccountID)

\* a Criteria 1 that forgets the amounts
ExactCriteria_TypeOnly(dbTx, csvTx) == NormalizedType(dbTx) = csvTx.Type

\* Criteria 1 of the first inner loop
ExactCriteria(dbTx, csvTx) ==
    NormalizedType(dbTx) = csvTx.Type /\ AmountEq(dbTx.Amount, csvTx.Amount)

\* a second inner loop that takes an external record of any type
TypeCriteria_AnyType(dbTx, csvTx) == TRUE

\* the condition of the second inner loop
TypeCriteria(dbTx, csvTx) == NormalizedType(dbTx) = csvTx.Type

\* a first inner loop without its break: the last fit wins
RECURSIVE ExactScan_LastFit(_, _, _, _)
ExactScan_LastFit(dbTx, csv, processed, j) ==
    IF j > Len(csv) THEN 0
    ELSE LET later == ExactScan_LastFit(dbTx, csv, processed, j + 1) IN
         IF later # 0 THEN later
         ELSE IF csv[j].ExternalID \notin processed /\ ExactCriteria(dbTx, csv[j])
              THEN j
         ELSE 0

\* the first inner loop from position j on: the position it breaks at, or 0
RECURSIVE ExactScan(_, _, _, _)
ExactScan(dbTx, csv, processed, j) ==
    IF j > Len(csv) THEN 0
    ELSE IF csv[j].ExternalID \in processed
         THEN ExactScan(dbTx, csv, processed, j + 1)
    ELSE IF ExactCriteria(dbTx, csv[j]) THEN j
    ELSE ExactScan(dbTx, csv, processed, j + 1)

\* a second inner loop without its break: the last fit wins
RECURSIVE TypeScan_LastFit(_, _, _, _)
TypeScan_LastFit(dbTx, csv, processed, j) ==
    IF j > Len(csv) THEN 0
    ELSE LET later == TypeScan_LastFit(dbTx, csv, processed, j + 1) IN
         IF later # 0 THEN later
         ELSE IF csv[j].ExternalID \notin processed /\ TypeCriteria(dbTx, csv[j])
              THEN j
         ELSE 0

\* a second inner loop that does not pass over the consumed records
RECURSIVE TypeScan_NoSkip(_, _, _, _)
TypeScan_NoSkip(dbTx, csv, processed, j) ==
    IF j > Len(csv) THEN 0
    ELSE IF TypeCriteria(dbTx, csv[j]) THEN j
    ELSE TypeScan_NoSkip(dbTx, csv, processed, j + 1)

\* a second inner loop that gives up at the first record not yet consumed
RECURSIVE TypeScan_FirstOnly(_, _, _, _)
TypeScan_FirstOnly(dbTx, csv, processed, j) ==
    IF j > Len(csv) THEN 0
    ELSE IF csv[j].ExternalID \in processed
         THEN TypeScan_FirstOnly(dbTx, csv, processed, j + 1)
    ELSE IF TypeCriteria(dbTx, csv[j]) THEN j
    ELSE 0

\* the second inner loop from position j on: the position it breaks at, or 0
RECURSIVE TypeScan(_, _, _, _)
TypeScan(dbTx, csv, processed, j) ==
    IF j > Len(csv) THEN 0
    ELSE IF csv[j].ExternalID \in processed
         THEN TypeScan(dbTx, csv, processed, j + 1)
    ELSE IF TypeCriteria(dbTx, csv[j]) THEN j
    ELSE TypeScan(dbTx, csv, processed, j + 1)

\* the fields the MATCH and MISMATCH_AMOUNT lines print; dbIdx and csvIdx
\* record the positions of the two records in their inputs
PairEntry(di, ci) ==
    [dbIdx |-> di, csvIdx |-> ci,
     dbID |-> dbTxs[di].TransactionID, dbAmount |-> dbTxs[di].Amount,
     dbType |-> NormalizedType(dbTxs[di]),
     csvID |-> csvTxs[ci].ExternalID, csvAmount |-> csvTxs[ci].Amount,
     csvType |-> csvTxs[ci].Type]

DBEntry(di) ==
    [dbIdx |-> di, dbID |-> dbTxs[di].TransactionID,
     dbType |-> dbTxs[di].TransactionType, dbAmount |-> dbTxs[di].Amount]

CSVEntry(ci) ==
    [csvIdx |-> ci, csvID |-> csvTxs[ci].ExternalID,
     csvType |-> csvTxs[ci].Type, csvAmount |-> csvTxs[ci].Amount]

\* a matcher that forgets to mark the ledger transaction
MarkDBTx_Forgotten(processed, id) == processed

\* a matcher that forgets to mark the external record
MarkCSVTx_Forgotten(processed, id) == processed

\* processedDBTx[id] = true
MarkDBTx(processed, id) == processed \cup {id}

\* processedCSVTx[id] = true
MarkCSVTx(processed, id) == processed \cup {id}

MatcherInit ==
    /\ \E n \in 0..MaxRecords : \E m \in 0..(MaxRecords - n) :
          /\ dbTxs \in DBInputs(n)
          /\ csvTxs \in CSVInputs(m)
    /\ processedDBTx = {}
    /\ processedCSVTx = {}
    /\ foundInBoth = <<>>
    /\ mismatchedAmounts = <<>>
    /\ onlyInDB = <<>>
    /\ onlyInCSV = <<>>
    /\ i = 1
    /\ pc = "start"
    /\ report = <<>>

\* ledger transfers: one with neither account, one with a from-account
TransferKinds ==
    { [TransactionType |-> <<"t","r","a","n","s","f","e","r">>,
       FromAccountID |-> Null, ToAccountID |-> Null],
      [TransactionType |-> TRANSFER,
       FromAccountID |-> NullInt64(1, TRUE), ToAccountID |-> Null] }

TransferCSVTypes == { TRANSFER, TRANSFER_OUT }

\* n ledger transfers with distinct ids
TransferDBInputs(n) ==
    { [k \in 1..n |->
         [TransactionID   |-> k,
          FromAccountID   |-> kinds[k].FromAccountID,
          ToAccountID     |-> kinds[k].ToAccountID,
          TransactionType |-> kinds[k].TransactionType,
          Amount          |-> amts[k]]] :
      kinds \in [1..n -> TransferKinds], amts \in [1..n -> Amounts] }

\* n external transfers with distinct ids
TransferCSVInputs(n) ==
    { [k \in 1..n |->
         [ExternalID |-> ExternalIDName[k],
          Amount     |-> amts[k],
          Type       |-> types[k]]] :
      types \in [1..n -> TransferCSVTypes], amts \in [1..n -> CSVAmounts] }

\* the matcher is called with transfers only
TransfersInit ==
    /\ \E n, k \in 0..MaxPairRecords :
          /\ dbTxs \in TransferDBInputs(n)
          /\ csvTxs \in TransferCSVInputs(k)
    /\ processedDBTx = {}
    /\ processedCSVTx = {}
    /\ foundInBoth = <<>>
    /\ mismatchedAmounts = <<>>
    /\ onlyInDB = <<>>
    /\ onlyInCSV = <<>>
    /\ i = 1
    /\ pc = "start"
    /\ report = <<>>

\* a line of standard output: a fixed text, or a bucket entry that was
\* formatted when it was classified
TextLine(s) == [text |-> s, item |-> <<>>]
ItemLine(e) == [text |-> "", item |-> <<e>>]

ReportTitle == "\n--- Reconciliation Report ---"
FoundInBothHeader ==
    "\n[Transactions Found in Both Systems (Exact Match on Type & Amount)]"
MismatchedAmountsHeader ==
    "\n[Potential Matches with Mismatched Amounts (Same Type)]"
OnlyInDBHeader == "\n[Transactions Only in Database]"
OnlyInCSVHeader == "\n[Transactions Only in CSV File]"
NoneText == "  None"
ReportEnd == "\n--- End of Reconciliation Report ---"

\* a section that prints nothing when it has no entry
SectionLines_NoNone(header, items) ==
    <<TextLine(header)>> \o [k \in 1..Len(items) |-> ItemLine(items[k])]

\* the lines of one section: its header, then its entries or None
SectionLines(header, items) ==
    <<TextLine(header)>> \o
    (IF Len(items) > 0
     THEN [k \in 1..Len(items) |-> ItemLine(items[k])]
     ELSE <<TextLine(NoneText)>>)

\* the first statement of reconcileTransactions
PrintTitle ==
    /\ pc = "start"
    /\ report' = Append(report, TextLine(ReportTitle))
    /\ pc' = "match"
    /\ UNCHANGED <<dbTxs, csvTxs, processedDBTx, processedCSVTx, foundInBoth,
                   mismatchedAmounts, onlyInDB, onlyInCSV, i, normVars,
                   loaderVars, runVars, transferVars, binlogVars>>

\* one iteration of the outer loop, on a transaction already processed
SkipProcessed ==
    /\ pc = "match" /\ i <= Len(dbTxs)
    /\ dbTxs[i].TransactionID \in processedDBTx
    /\ i' = i + 1
    /\ UNCHANGED <<dbTxs, csvTxs, processedDBTx, processedCSVTx, foundInBoth,
                   mismatchedAmounts, onlyInDB, onlyInCSV, pc,
                   report, normVars, loaderVars, runVars, transferVars,
                   binlogVars>>

\* one iteration of the outer loop whose first inner loop finds a match
MatchExact ==
    /\ pc = "match" /\ i <= Len(dbTxs)
    /\ dbTxs[i].TransactionID \notin processedDBTx
    /\ LET j == ExactScan(dbTxs[i], csvTxs, processedCSVTx, 1) IN
         /\ j # 0
         /\ foundInBoth' = Append(foundInBoth, PairEntry(i, j))
         /\ processedDBTx' = MarkDBTx(processedDBTx, dbTxs[i].TransactionID)
         /\ processedCSVTx' = MarkCSVTx(processedCSVTx, csvTxs[j].ExternalID)
    /\ i' = i + 1
    /\ UNCHANGED <<dbTxs, csvTxs, mismatchedAmounts, onlyInDB, onlyInCSV, pc,
                   report, normVars, loaderVars, runVars, transferVars,
                   binlogVars>>

\* a type-only pairing made without looking at matchedThisDBTx
MatchTypeOnly_Unguarded ==
    /\ pc = "match" /\ i <= Len(dbTxs)
    /\ dbTxs[i].TransactionID \notin processedDBTx
    /\ LET j == TypeScan(dbTxs[i], csvTxs, processedCSVTx, 1) IN
         /\ j # 0
         /\ mismatchedAmounts' = Append(mismatchedAmounts, PairEntry(i, j))
         /\ processedDBTx' = MarkDBTx(processedDBTx, dbTxs[i].TransactionID)
         /\ processedCSVTx' = MarkCSVTx(processedCSVTx, csvTxs[j].ExternalID)
    /\ i' = i + 1
    /\ UNCHANGED <<dbTxs, csvTxs, foundInBoth, onlyInDB, onlyInCSV, pc,
                   report, normVars, loaderVars, runVars, transferVars,
                   binlogVars>>

\* one iteration whose first inner loop finds nothing and whose second
\* inner loop finds a record of the same type
MatchTypeOnly ==
    /\ pc = "match" /\ i <= Len(dbTxs)
    /\ dbTxs[i].TransactionID \notin processedDBTx
    /\ ExactScan(dbTxs[i], csvTxs, processedCSVTx, 1) = 0
    /\ LET j == TypeScan(dbTxs[i], csvTxs, processedCSVTx, 1) IN
         /\ j # 0
         /\ mismatchedAmounts' = Append(mismatchedAmounts, PairEntry(i, j))
         /\ processedDBTx' = MarkDBTx(processedDBTx, dbTxs[i].TransactionID)
         /\ processedCSVTx' = MarkCSVTx(processedCSVTx, csvTxs[j].ExternalID)
    /\ i' = i + 1
    /\ UNCHANGED <<dbTxs, csvTxs, foundInBoth, onlyInDB, onlyInCSV, pc,
                   report, normVars, loaderVars, runVars, transferVars,
                   binlogVars>>

\* one iteration in which neither inner loop finds a record
MatchNone ==
    /\ pc = "match" /\ i <= Len(dbTxs)
    /\ dbTxs[i].TransactionID \notin processedDBTx
    /\ ExactScan(dbTxs[i], csvTxs, processedCSVTx, 1) = 0
    /\ TypeScan(dbTxs[i], csvTxs, processedCSVTx, 1) = 0
    /\ i' = i + 1
    /\ UNCHANGED <<dbTxs, csvTxs, processedDBTx, processedCSVTx, foundInBoth,
                   mismatchedAmounts, onlyInDB, onlyInCSV, pc,
                   report, normVars, loaderVars, runVars, transferVars,
                   binlogVars>>

\* the outer loop ends
EndMatch ==
    /\ pc = "match" /\ i > Len(dbTxs)
    /\ pc' = "onlyInDB"
    /\ UNCHANGED <<dbTxs, csvTxs, processedDBTx, processedCSVTx, foundInBoth,
                   mismatchedAmounts, onlyInDB, onlyInCSV, i, report, normVars,
                   loaderVars, runVars, transferVars, binlogVars>>

\* a loop that collects the transactions that were processed
RECURSIVE CollectDB_OnlyProcessed(_)
CollectDB_OnlyProcessed(k) ==
    IF k > Len(dbTxs) THEN <<>>
    ELSE IF dbTxs[k].TransactionID \in processedDBTx
         THEN <<DBEntry(k)>> \o CollectDB_OnlyProcessed(k + 1)
    ELSE CollectDB_OnlyProcessed(k + 1)

\* the loop that collects onlyInDB
RECURSIVE CollectDB(_)
CollectDB(k) ==
    IF k > Len(dbTxs) THEN <<>>
    ELSE IF dbTxs[k].TransactionID \notin processedDBTx
         THEN <<DBEntry(k)>> \o CollectDB(k + 1)
    ELSE CollectDB(k + 1)

\* a loop that puts each entry before the entries collected so far
RECURSIVE CollectCSV_Reversed(_)
CollectCSV_Reversed(k) ==
    IF k > Len(csvTxs) THEN <<>>
    ELSE IF csvTxs[k].ExternalID \notin processedCSVTx
         THEN CollectCSV_Reversed(k + 1) \o <<CSVEntry(k)>>
    ELSE CollectCSV_Reversed(k + 1)

\* the loop that collects onlyInCSV
RECURSIVE CollectCSV(_)
CollectCSV(k) ==
    IF k > Len(csvTxs) THEN <<>>
    ELSE IF csvTxs[k].ExternalID \notin processedCSVTx
         THEN <<CSVEntry(k)>> \o CollectCSV(k + 1)
    ELSE CollectCSV(k + 1)

OnlyInDB ==
    /\ pc = "onlyInDB"
    /\ onlyInDB' = CollectDB(1)
    /\ pc' = "onlyInCSV"
    /\ UNCHANGED <<dbTxs, csvTxs, processedDBTx, processedCSVTx, foundInBoth,
                   mismatchedAmounts, onlyInCSV, i, report, normVars,
                   loaderVars, runVars, transferVars, binlogVars>>

\* a loop that ranges over a map of the external records, which Go visits
\* in an order of its own choice
OnlyInCSV_RangeMap ==
    /\ pc = "onlyInCSV"
    /\ \E order \in Permutations(1..Len(CollectCSV(1))) :
          onlyInCSV' = [k \in 1..Len(CollectCSV(1)) |-> CollectCSV(1)[order[k]]]
    /\ pc' = "report"
    /\ UNCHANGED <<dbTxs, csvTxs, processedDBTx, processedCSVTx, foundInBoth,
                   mismatchedAmounts, onlyInDB, i, report, normVars,
                   loaderVars, runVars, transferVars, binlogVars>>

OnlyInCSV ==
    /\ pc = "onlyInCSV"
    /\ onlyInCSV' = CollectCSV(1)
    /\ pc' = "report"
    /\ UNCHANGED <<dbTxs, csvTxs, processedDBTx, processedCSVTx, foundInBoth,
                   mismatchedAmounts, onlyInDB, i, report, normVars,
                   loaderVars, runVars, transferVars, binlogVars>>

\* the four sections and the closing line
PrintReport ==
    /\ pc = "report"
    /\ report' = report
                  \o SectionLines(FoundInBothHeader, foundInBoth)
                  \o SectionLines(MismatchedAmountsHeader, mismatchedAmounts)
                  \o SectionLines(OnlyInDBHeader, onlyInDB)
                  \o SectionLines(OnlyInCSVHeader, onlyInCSV)
                  \o <<TextLine(ReportEnd)>>
    /\ pc' = "done"
    /\ UNCHANGED <<dbTxs, csvTxs, processedDBTx, processedCSVTx, foundInBoth,
                   mismatchedAmounts, onlyInDB, onlyInCSV, i, normVars,
                   loaderVars, runVars, transferVars, binlogVars>>

(***************************************************************************)
(* The loader.  A feed is a file that can be opened or not and the lines   *)
(* of it, each the fields encoding/csv splits it into, or (the header) a   *)
(* line that encoding/csv cannot split (a bare quote).                     *)
(***************************************************************************)
Line(fields) == [fields |-> fields, bareQuote |-> FALSE]

BadLine == [fields |-> <<>>, bareQuote |-> TRUE]

Header4 == Line(<<<<"i","d">>, <<"a","m","t">>, <<"t","y","p","e">>,
                  <<"r","e","f">>>>)
Header3 == Line(<<<<"i","d">>, <<"a","m","t">>, <<"t","y","p","e">>>>)
Header5 == Line(<<<<"i","d">>, <<"a","m","t">>, <<"t","y","p","e">>,
                  <<"r","e","f">>, <<"x">>>>)

Headers == { Header4, Header3, Header5, BadLine }

RowValid     == Line(<<<<"E","1">>, <<"1","0","0">>,
                       <<"d","e","p","o","s","i","t">>, <<"r","1">>>>)
RowSpaced    == Line(<<<<" ","E","2">>, <<" ","-","5","0"," ">>,
                       <<" ","F","e","e"," ">>, <<"r","2"," ">>>>)
RowBadAmount == Line(<<<<"E","3">>, <<"1","x">>, DEPOSIT, <<"r","3">>>>)
RowNaN       == Line(<<<<"E","4">>, <<"N","a","N">>, DEPOSIT, <<"r","4">>>>)
RowShort     == Line(<<<<"E","5">>, <<"5">>, DEPOSIT>>)
RowLong      == Line(<<<<"E","6">>, <<"6">>, DEPOSIT, <<"r","6">>, <<"x">>>>)

Rows == { RowValid, RowSpaced, RowBadAmount, RowNaN, RowShort, RowLong }

Feeds ==
    { [exists |-> FALSE, lines |-> <<>>], [exists |-> TRUE, lines |-> <<>>] }
    \cup
    { [exists |-> TRUE, lines |-> <<h>> \o rows] :
        h \in Headers,
        rows \in UNION { [1..n -> Rows] : n \in 0..MaxRows } }

\* a Go slice: nil, or its elements
NilSlice == [isNil |-> TRUE, elems |-> <<>>]
EmptySlice == [isNil |-> FALSE, elems |-> <<>>]
AppendSlice(sl, x) == [isNil |-> FALSE, elems |-> Append(sl.elems, x)]

\* csv.NewReader: FieldsPerRecord is 0
NewReader == [FieldsPerRecord |-> 0, next |-> 1]

\* reader.Read(): the record, the error and the reader afterwards.  With
\* FieldsPerRecord 0 the first record sets the number of fields that every
\* later record must have; a record with another number of fields comes
\* with the error ErrFieldCount.
ReaderRead(f, r) ==
    IF r.next > Len(f.lines)
    THEN [record |-> <<>>, err |-> "EOF", reader |-> r]
    ELSE LET ln == f.lines[r.next]
             after == [r EXCEPT !.next = @ + 1]
         IN
         IF ln.bareQuote
         THEN [record |-> <<>>, err |-> "ErrBareQuote", reader |-> after]
         ELSE IF r.FieldsPerRecord > 0 /\ Len(ln.fields) # r.FieldsPerRecord
         THEN [record |-> ln.fields, err |-> "ErrFieldCount", reader |-> after]
         ELSE [record |-> ln.fields, err |-> "nil",
               reader |-> [after EXCEPT !.FieldsPerRecord = Len(ln.fields)]]

\* the ExternalTransaction appended for a record whose amount parsed
ExternalTransaction(record, amount) ==
    [ExternalID |-> TrimSpace(record[1]),
     Amount     |-> amount,
     Type       |-> TrimSpace(ToUpper(record[3])),
     Reference  |-> TrimSpace(record[4])]

\* strconv.ParseFloat(strings.TrimSpace(record[1]), 64)
RecordAmount(record) == ParseFloat(TrimSpace(record[2]))

NoResult == [returned |-> FALSE, transactions |-> NilSlice, err |-> "nil"]

Return(sl, err) == [returned |-> TRUE, transactions |-> sl, err |-> err]

\* loadExternalTransactions of the standalone program, the loop of its
\* records: the reader r, the slice sl built so far
RECURSIVE loadRecords(_, _, _)
loadRecords(f, r, sl) ==
    LET body(rd) ==
           IF rd.err = "EOF" THEN Return(sl, "nil")
           ELSE IF rd.err # "nil" THEN Return(NilSlice, "record")
           ELSE IF Len(rd.record) < 4 THEN loadRecords(f, rd.reader, sl)
           ELSE IF ~RecordAmount(rd.record).ok
           THEN loadRecords(f, rd.reader, sl)
           ELSE loadRecords(f, rd.reader,
                   AppendSlice(sl, ExternalTransaction(rd.record,
                                       RecordAmount(rd.record).value)))
    IN
    \* csv.Reader.Read is called once in each turn of the loop
    CHOOSE res \in { body(rd) : rd \in { ReaderRead(f, r) } } : TRUE

\* loadExternalTransactions of the standalone program: what a call returns
loadExternalTransactions(f) ==
    IF ~f.exists THEN Return(NilSlice, "open")
    ELSE LET h == ReaderRead(f, NewReader) IN
         IF h.err = "EOF" THEN Return(EmptySlice, "nil")
         ELSE IF h.err # "nil" THEN Return(NilSlice, "header")
         ELSE loadRecords(f, h.reader, NilSlice)

LoaderInit ==
    /\ file \in Feeds
    /\ reader = NewReader
    /\ transactions = NilSlice
    /\ warnings = <<>>
    /\ loadResult = NoResult
    /\ lpc = "open"

\* os.Open fails
OpenFails ==
    /\ lpc = "open" /\ ~file.exists
    /\ loadResult' = Return(NilSlice, "open")
    /\ lpc' = "done"
    /\ UNCHANGED <<file, reader, transactions, warnings, matcherVars,
                   normVars, runVars, transferVars, binlogVars>>

\* os.Open succeeds
Open ==
    /\ lpc = "open" /\ file.exists
    /\ lpc' = "header"
    /\ UNCHANGED <<file, reader, transactions, warnings, loadResult,
                   matcherVars, normVars, runVars, transferVars, binlogVars>>

\* the header is read and skipped
ReadHeader ==
    /\ lpc = "header"
    /\ LET r == ReaderRead(file, reader) IN
         /\ r.err = "nil"
         /\ reader' = r.reader
    /\ lpc' = "records"
    /\ UNCHANGED <<file, transactions, warnings, loadResult, matcherVars,
                   normVars, runVars, transferVars, binlogVars>>

\* reading the header meets the end of the file
HeaderEOF ==
    /\ lpc = "header"
    /\ LET r == ReaderRead(file, reader) IN
         /\ r.err = "EOF"
         /\ reader' = r.reader
    /\ loadResult' = Return(EmptySlice, "nil")
    /\ lpc' = "done"
    /\ UNCHANGED <<file, transactions, warnings, matcherVars,
                   normVars, runVars, transferVars, binlogVars>>

\* reading the header fails
HeaderFails ==
    /\ lpc = "header"
    /\ LET r == ReaderRead(file, reader) IN
         /\ r.err \notin {"nil", "EOF"}
         /\ reader' = r.reader
    /\ loadResult' = Return(NilSlice, "header")
    /\ lpc' = "done"
    /\ UNCHANGED <<file, transactions, warnings, matcherVars,
                   normVars, runVars, transferVars, binlogVars>>

\* one iteration of the loop: the end of the file, break and return
RecordEOF ==
    /\ lpc = "records"
    /\ LET r == ReaderRead(file, reader) IN
         /\ r.err = "EOF"
         /\ reader' = r.reader
    /\ loadResult' = Return(transactions, "nil")
    /\ lpc' = "done"
    /\ UNCHANGED <<file, transactions, warnings, matcherVars,
                   normVars, runVars, transferVars, binlogVars>>

\* one iteration of the loop: reader.Read() returns another error
RecordFails ==
    /\ lpc = "records"
    /\ LET r == ReaderRead(file, reader) IN
         /\ r.err \notin {"nil", "EOF"}
         /\ reader' = r.reader
    /\ loadResult' = Return(NilSlice, "record")
    /\ lpc' = "done"
    /\ UNCHANGED <<file, transactions, warnings, matcherVars,
                   normVars, runVars, transferVars, binlogVars>>

\* one iteration of the loop: a record of fewer than 4 fields
SkipMalformed ==
    /\ lpc = "records"
    /\ LET r == ReaderRead(file, reader) IN
         /\ r.err = "nil"
         /\ Len(r.record) < 4
         /\ reader' = r.reader
         /\ warnings' = Append(warnings,
                [kind |-> "malformed", line |-> reader.next])
    /\ UNCHANGED <<file, transactions, loadResult, lpc, matcherVars,
                   normVars, runVars, transferVars, binlogVars>>

\* a loader for which an amount that does not parse ends the load
SkipInvalidAmount_Fatal ==
    /\ lpc = "records"
    /\ LET r == ReaderRead(file, reader) IN
         /\ r.err = "nil"
         /\ Len(r.record) >= 4
         /\ ~RecordAmount(r.record).ok
         /\ reader' = r.reader
    /\ loadResult' = Return(NilSlice, "record")
    /\ lpc' = "done"
    /\ UNCHANGED <<file, transactions, warnings, matcherVars,
                   normVars, runVars, transferVars, binlogVars>>

\* one iteration of the loop: a record whose amount does not parse
SkipInvalidAmount ==
    /\ lpc = "records"
    /\ LET r == ReaderRead(file, reader) IN
         /\ r.err = "nil"
         /\ Len(r.record) >= 4
         /\ ~RecordAmount(r.record).ok
         /\ reader' = r.reader
         /\ warnings' = Append(warnings,
                [kind |-> "invalid amount", line |-> reader.next])
    /\ UNCHANGED <<file, transactions, loadResult, lpc, matcherVars,
                   normVars, runVars, transferVars, binlogVars>>

\* one iteration of the loop: a record that is appended
AppendRecord ==
    /\ lpc = "records"
    /\ LET r == ReaderRead(file, reader) IN
         /\ r.err = "nil"
         /\ Len(r.record) >= 4
         /\ RecordAmount(r.record).ok
         /\ reader' = r.reader
         /\ transactions' = AppendSlice(transactions,
                ExternalTransaction(r.record, RecordAmount(r.record).value))
    /\ UNCHANGED <<file, warnings, loadResult, lpc, matcherVars,
                   normVars, runVars, transferVars, binlogVars>>

(***************************************************************************)
(* A call of the normalizer on its own.                                    *)
(***************************************************************************)
NormTypes ==
    { DEPOSIT, <<"d","e","p","o","s","i","t">>, <<"D","e","p","o","s","i","t">>,
      WITHDRAWAL, <<"w","i","t","h","d","r","a","w","a","l">>,
      TRANSFER, <<"t","r","a","n","s","f","e","r">>,
      <<"T","r","a","n","s","f","e","r">>,
      TRANSFER_OUT, <<"F","O","O">>, <<"f","o","o">>, <<"F","e","e">>, <<>> }

NormAccounts == { Null, NullInt64(1, TRUE), NullInt64(2, TRUE) }

NormInit ==
    /\ normIn \in [dbType : NormTypes, fromID : NormAccounts, toID : NormAccounts]
    /\ normOut = [returned |-> FALSE, value |-> <<>>]

Normalize ==
    /\ ~normOut.returned
    /\ normOut' = [returned |-> TRUE,
                   value |-> normalizeDBTransactionType(normIn.dbType,
                                 normIn.fromID, normIn.toID)]
    /\ UNCHANGED <<normIn, matcherVars, loaderVars, runVars, transferVars,
                   binlogVars>>

(***************************************************************************)
(* A whole run: main of the standalone program loads the feed, fetches the *)
(* ledger and calls reconcileTransactions; the service method              *)
(* ReconcileTransactions prints the title, then loads and fetches itself   *)
(* and goes on with its own copy of the matching and of the report.        *)
(***************************************************************************)
Callers == { "main", "service" }

\* the transactions table: the query fails, or it holds rows with distinct
\* transaction ids
Tables ==
    { [ok |-> FALSE, rows |-> {}] } \cup
    { [ok |-> TRUE, rows |-> { s[k] : k \in 1..Len(s) }] :
        s \in UNION { { d \in DBInputs(n) :
                          \A a, b \in 1..n :
                             a # b => d[a].TransactionID # d[b].TransactionID } :
                      n \in 0..MaxTableRows } }

\* SELECT ... FROM transactions ORDER BY transaction_id
RECURSIVE GetAllTransactionsForReconciliation(_)
GetAllTransactionsForReconciliation(rows) ==
    IF rows = {} THEN <<>>
    ELSE LET first == CHOOSE x \in rows :
                         \A y \in rows : x.TransactionID <= y.TransactionID
         IN <<first>> \o GetAllTransactionsForReconciliation(rows \ {first})

RowDeposit50 == Line(<<<<"E","7">>, <<"5","0">>, DEPOSIT, <<"r","7">>>>)
RowTransferOut == Line(<<<<"E","8">>, <<"5","0">>,
                         <<"t","r","a","n","s","f","e","r","_","o","u","t">>,
                         <<"r","8">>>>)

\* the feeds of a whole run
RunFeeds ==
    { [exists |-> FALSE, lines |-> <<>>],
      [exists |-> TRUE, lines |-> <<>>],
      [exists |-> TRUE, lines |-> <<BadLine>>],
      [exists |-> TRUE, lines |-> <<Header4>>],
      [exists |-> TRUE, lines |-> <<Header4, RowValid>>],
      [exists |-> TRUE, lines |-> <<Header4, RowDeposit50, RowValid>>],
      [exists |-> TRUE, lines |-> <<Header4, RowValid, RowTransferOut>>],
      [exists |-> TRUE, lines |-> <<Header4, RowBadAmount, RowSpaced>>],
      [exists |-> TRUE, lines |-> <<Header4, RowValid, RowShort>>],
      [exists |-> TRUE, lines |-> <<Header3, RowShort>>] }

RunInit ==
    /\ caller \in Callers
    /\ table \in Tables
    /\ file \in RunFeeds
    /\ reader = NewReader
    /\ transactions = NilSlice
    /\ warnings = <<>>
    /\ loadResult = NoResult
    /\ lpc = "idle"
    /\ dbTxs = <<>>
    /\ csvTxs = <<>>
    /\ processedDBTx = {}
    /\ processedCSVTx = {}
    /\ foundInBoth = <<>>
    /\ mismatchedAmounts = <<>>
    /\ onlyInDB = <<>>
    /\ onlyInCSV = <<>>
    /\ i = 1
    /\ pc = "begin"
    /\ report = <<>>

\* main calls loadExternalTransactions, which returns
MainLoad ==
    /\ caller = "main" /\ pc = "begin"
    /\ loadResult' = loadExternalTransactions(file)
    /\ lpc' = "done"
    /\ pc' = "load"
    /\ UNCHANGED <<dbTxs, csvTxs, processedDBTx, processedCSVTx, foundInBoth,
                   mismatchedAmounts, onlyInDB, onlyInCSV, i, report,
                   file, reader, transactions, warnings,
                   normVars, runVars, transferVars, binlogVars>>

\* main: the load returned an error, log.Fatalf
MainLoadFatal ==
    /\ caller = "main" /\ pc = "load"
    /\ lpc = "done" /\ loadResult.err # "nil"
    /\ pc' = "exit"
    /\ UNCHANGED <<dbTxs, csvTxs, processedDBTx, processedCSVTx, foundInBoth,
                   mismatchedAmounts, onlyInDB, onlyInCSV, i, report,
                   normVars, loaderVars, runVars, transferVars, binlogVars>>

\* main: the load returned, the query fails, log.Fatalf
MainFetchFatal ==
    /\ caller = "main" /\ pc = "load"
    /\ lpc = "done" /\ loadResult.err = "nil"
    /\ ~table.ok
    /\ pc' = "exit"
    /\ UNCHANGED <<dbTxs, csvTxs, processedDBTx, processedCSVTx, foundInBoth,
                   mismatchedAmounts, onlyInDB, onlyInCSV, i, report,
                   normVars, loaderVars, runVars, transferVars, binlogVars>>

\* main: the load returned, the ledger is fetched and reconcileTransactions
\* is called with the two slices
MainFetch ==
    /\ caller = "main" /\ pc = "load"
    /\ lpc = "done" /\ loadResult.err = "nil"
    /\ table.ok
    /\ csvTxs' = loadResult.transactions.elems
    /\ dbTxs' = GetAllTransactionsForReconciliation(table.rows)
    /\ pc' = "start"
    /\ UNCHANGED <<processedDBTx, processedCSVTx, foundInBoth,
                   mismatchedAmounts, onlyInDB, onlyInCSV, i, report,
                   normVars, loaderVars, runVars, transferVars, binlogVars>>

\* the first statement of the service method
ServiceTitle ==
    /\ caller = "service" /\ pc = "begin"
    /\ report' = Append(report, TextLine(ReportTitle))
    /\ pc' = "titled"
    /\ UNCHANGED <<dbTxs, csvTxs, processedDBTx, processedCSVTx, foundInBoth,
                   mismatchedAmounts, onlyInDB, onlyInCSV, i,
                   normVars, loaderVars, runVars, transferVars, binlogVars>>

\* the service calls s.dataLoader.LoadExternalTransactions
ServiceLoad ==
    /\ caller = "service" /\ pc = "titled"
    /\ lpc' = "open"
    /\ pc' = "load"
    /\ UNCHANGED <<dbTxs, csvTxs, processedDBTx, processedCSVTx, foundInBoth,
                   mismatchedAmounts, onlyInDB, onlyInCSV, i, report,
                   file, reader, transactions, warnings, loadResult,
                   normVars, runVars, transferVars, binlogVars>>

\* the service: the load returned an error, log.Fatalf
ServiceLoadFatal ==
    /\ caller = "service" /\ pc = "load"
    /\ lpc = "done" /\ loadResult.err # "nil"
    /\ pc' = "exit"
    /\ UNCHANGED <<dbTxs, csvTxs, processedDBTx, processedCSVTx, foundInBoth,
                   mismatchedAmounts, onlyInDB, onlyInCSV, i, report,
                   normVars, loaderVars, runVars, transferVars, binlogVars>>

\* the service: the load returned, the query fails, log.Fatalf
ServiceFetchFatal ==
    /\ caller = "service" /\ pc = "load"
    /\ lpc = "done" /\ loadResult.err = "nil"
    /\ ~table.ok
    /\ pc' = "exit"
    /\ UNCHANGED <<dbTxs, csvTxs, processedDBTx, processedCSVTx, foundInBoth,
                   mismatchedAmounts, onlyInDB, onlyInCSV, i, report,
                   normVars, loaderVars, runVars, transferVars, binlogVars>>

\* the service: the load returned, the ledger is fetched and the matching
\* begins
ServiceFetch ==
    /\ caller = "service" /\ pc = "load"
    /\ lpc = "done" /\ loadResult.err = "nil"
    /\ table.ok
    /\ csvTxs' = loadResult.transactions.elems
    /\ dbTxs' = GetAllTransactionsForReconciliation(table.rows)
    /\ pc' = "match"
    /\ UNCHANGED <<processedDBTx, processedCSVTx, foundInBoth,
                   mismatchedAmounts, onlyInDB, onlyInCSV, i, report,
                   normVars, loaderVars, runVars, transferVars, binlogVars>>

(***************************************************************************)
(* Two runs side by side.  The variables of the matcher are those of the   *)
(* run that is running; the frame of the other run, with its own slices    *)
(* and its own two maps, is suspended in other, and a switch suspends the  *)
(* running one and resumes the other.  A run is a call of                  *)
(* reconcileTransactions or the matching of the service method, which has  *)
(* printed its title before it loaded its inputs.                          *)
(***************************************************************************)
\* the frame of the run that is running
CurrentFrame ==
    [dbTxs |-> dbTxs, csvTxs |-> csvTxs, processedDBTx |-> processedDBTx,
     processedCSVTx |-> processedCSVTx, foundInBoth |-> foundInBoth,
     mismatchedAmounts |-> mismatchedAmounts, onlyInDB |-> onlyInDB,
     onlyInCSV |-> onlyInCSV, i |-> i, pc |-> pc, report |-> report,
     caller |-> caller]

\* the frame of a run of caller c on the inputs db and csv, at its start
StartFrame(c, db, csv) ==
    [dbTxs |-> db, csvTxs |-> csv, processedDBTx |-> {},
     processedCSVTx |-> {}, foundInBoth |-> <<>>, mismatchedAmounts |-> <<>>,
     onlyInDB |-> <<>>, onlyInCSV |-> <<>>, i |-> 1,
     pc |-> IF c = "service" THEN "match" ELSE "start",
     report |-> IF c = "service" THEN <<TextLine(ReportTitle)>> ELSE <<>>,
     caller |-> c]

\* ledger inputs as a fetch returns them: the ids are distinct
FetchedInputs(n) ==
    { d \in DBInputs(n) :
        \A a, b \in 1..n : a # b => d[a].TransactionID # d[b].TransactionID }

\* the inputs of the first run
PairInputs ==
    UNION { FetchedInputs(n) \X CSVInputs(k) :
              n \in 0..MaxPairRecords, k \in 0..MaxPairRecords }

\* inputs of the second run that are not those of the first
OtherLedger ==
    << [TransactionID |-> 1, FromAccountID |-> Null,
        ToAccountID |-> NullInt64(1, TRUE),
        TransactionType |-> <<"d","e","p","o","s","i","t">>,
        Amount |-> Float(100)] >>

OtherInputs ==
    { <<OtherLedger, <<[ExternalID |-> "E1", Amount |-> Float(100),
                        Type |-> DEPOSIT]>>>>,
      <<OtherLedger, <<[ExternalID |-> "E1", Amount |-> Float(50),
                        Type |-> DEPOSIT]>>>> }

\* the running frame is f
Running(f) ==
    /\ dbTxs = f.dbTxs
    /\ csvTxs = f.csvTxs
    /\ processedDBTx = f.processedDBTx
    /\ processedCSVTx = f.processedCSVTx
    /\ foundInBoth = f.foundInBoth
    /\ mismatchedAmounts = f.mismatchedAmounts
    /\ onlyInDB = f.onlyInDB
    /\ onlyInCSV = f.onlyInCSV
    /\ i = f.i
    /\ pc = f.pc
    /\ report = f.report
    /\ caller = f.caller

\* the two copies side by side on the same inputs: a call of
\* reconcileTransactions and the matching of the service method
CopiesInit ==
    /\ \E first \in PairInputs :
          /\ Len(first[1]) + Len(first[2]) <= MaxPairRecords
          /\ Running(StartFrame("main", first[1], first[2]))
          /\ other = StartFrame("service", first[1], first[2])
    /\ table = [ok |-> FALSE, rows |-> {}]

TwoInit ==
    /\ \E first \in PairInputs :
          /\ Len(first[1]) + Len(first[2]) <= MaxPairRecords
          /\ Running(StartFrame("main", first[1], first[2]))
          /\ \E c2 \in Callers : \E second \in {first} \cup OtherInputs :
                other = StartFrame(c2, second[1], second[2])
    /\ table = [ok |-> FALSE, rows |-> {}]

\* a switch that leaves the two maps where they are, as if the runs
\* shared them
Switch_SharedMaps ==
    /\ other.pc # "idle"
    /\ dbTxs' = other.dbTxs
    /\ csvTxs' = other.csvTxs
    /\ foundInBoth' = other.foundInBoth
    /\ mismatchedAmounts' = other.mismatchedAmounts
    /\ onlyInDB' = other.onlyInDB
    /\ onlyInCSV' = other.onlyInCSV
    /\ i' = other.i
    /\ pc' = other.pc
    /\ report' = other.report
    /\ caller' = other.caller
    /\ other' = CurrentFrame
    /\ UNCHANGED <<processedDBTx, processedCSVTx, table, normVars,
                   loaderVars, transferVars, binlogVars>>

\* the running run is suspended and the other resumed, each with its own
\* slices, maps and position
Switch ==
    /\ other.pc # "idle"
    /\ dbTxs' = other.dbTxs
    /\ csvTxs' = other.csvTxs
    /\ processedDBTx' = other.processedDBTx
    /\ processedCSVTx' = other.processedCSVTx
    /\ foundInBoth' = other.foundInBoth
    /\ mismatchedAmounts' = other.mismatchedAmounts
    /\ onlyInDB' = other.onlyInDB
    /\ onlyInCSV' = other.onlyInCSV
    /\ i' = other.i
    /\ pc' = other.pc
    /\ report' = other.report
    /\ caller' = other.caller
    /\ other' = CurrentFrame
    /\ UNCHANGED <<table, normVars, loaderVars, transferVars, binlogVars>>

(***************************************************************************)
(* TransferFunds of the transaction service.  Each call of a repository    *)
(* method is one statement sent to the database on its own, outside any    *)
(* SQL transaction; it takes effect, or it fails with an error of the      *)
(* driver and has no effect.                                               *)
(***************************************************************************)
\* an error value: nil, or a message and the errors that it wraps with %w
Nil == [isNil |-> TRUE, text |-> "", wraps |-> {}]
Errorf(text, wraps) == [isNil |-> FALSE, text |-> text, wraps |-> wraps]

\* errors.Is(err, target)
ErrorsIs(err, target) == ~err.isNil /\ target \in err.wraps

ErrInsufficientFunds == "insufficient funds"
ErrAccountNotFound == "account not found"
ErrAccountInactive == "account is inactive"
ErrSameAccountTransfer == "cannot transfer funds to the same account"
ErrInvalidTransferAmount == "invalid transfer amount"
ErrNoRows == "sql: no rows in result set"
ErrDriver == "driver: bad connection"

\* the account ids of the calls; no row of the table has the last one
AccountIDs == { 1, 2, 3 }
Balances == { 0, 50, 100 }
TransferAmounts == { 0, 50, 100 }
Descriptions == { "", "Payment for services" }
NotesTexts == { "", "Invoice #123" }

NoRow ==
    [exists |-> FALSE, AccountHolder |-> "", Balance |-> 0,
     IsDeleted |-> FALSE]

\* the holder of each account when the table is set up
Holders == <<"Alice", "Bob">>

AccountTables ==
    { [id \in AccountIDs |->
          IF id = 3 THEN NoRow
          ELSE [exists |-> TRUE, AccountHolder |-> Holders[id],
                Balance |-> rows[id].Balance,
                IsDeleted |-> rows[id].IsDeleted]] :
        rows \in [{1, 2} -> [Balance : Balances, IsDeleted : BOOLEAN]] }

\* the zero value of models.Account
ZeroAccount ==
    [AccountID |-> 0, AccountHolder |-> "", Balance |-> 0,
     IsDeleted |-> FALSE]

\* GetAccountByID: SELECT ... WHERE account_id = ? AND is_deleted = FALSE
GetAccountByID(tbl, accountID, fault) ==
    IF fault
    THEN [acc |-> ZeroAccount, err |-> Errorf("GetAccountByID: %w", {ErrDriver})]
    ELSE IF tbl[accountID].exists /\ ~tbl[accountID].IsDeleted
    THEN [acc |-> [AccountID |-> accountID,
                   AccountHolder |-> tbl[accountID].AccountHolder,
                   Balance |-> tbl[accountID].Balance,
                   IsDeleted |-> tbl[accountID].IsDeleted],
          err |-> Nil]
    ELSE [acc |-> ZeroAccount,
          err |-> Errorf("GetAccountByID: no active account found with ID %d",
                         {})]

\* AdjustAccountBalance: UPDATE accounts SET balance = balance + ? WHERE
\* account_id = ?
AdjustAccountBalance(tbl, accountID, amountChange, fault) ==
    IF fault
    THEN [tbl |-> tbl, rowsAffected |-> 0,
          err |-> Errorf("AdjustAccountBalance: %w", {ErrDriver})]
    ELSE IF tbl[accountID].exists
    THEN [tbl |-> [tbl EXCEPT ![accountID].Balance = @ + amountChange],
          rowsAffected |-> 1, err |-> Nil]
    ELSE [tbl |-> tbl, rowsAffected |-> 0, err |-> Nil]

\* sql.NullString{String: s, Valid: s != ""}
NullString(s) == [String |-> s, Valid |-> s # ""]

\* CreateTransactionWithNotes: INSERT INTO transactions ...
CreateTransactionWithNotes(log, fromID, toID, txType, amt, desc, notes, fault) ==
    IF fault
    THEN [log |-> log, id |-> 0,
          err |-> Errorf("CreateTransactionWithNotes: %w", {ErrDriver})]
    ELSE [log |-> Append(log,
                    [TransactionID |-> Len(log) + 1,
                     FromAccountID |-> fromID, ToAccountID |-> toID,
                     TransactionType |-> txType, Amount |-> Float(amt),
                     Description |-> desc, Notes |-> notes]),
          id |-> Len(log) + 1, err |-> Nil]

\* the statements a call sends to the database, as it lists them
SELECT == "SELECT accounts"
UPDATE == "UPDATE accounts"
INSERT == "INSERT transactions"
BEGIN == "BEGIN"
COMMIT == "COMMIT"
ROLLBACK == "ROLLBACK"

\* the call has sent the statement
Sent(stmt, call) == [call EXCEPT !.stmts = Append(@, stmt)]

\* no sql.Tx is open
NoTx == [open |-> FALSE, accounts |-> <<>>, txLog |-> <<>>]

\* no account function has been called
NoAccountCall ==
    [op |-> "none", accountID |-> 0, err |-> Nil, acc |-> ZeroAccount,
     all |-> <<>>, total |-> 0, row |-> NoRow]

\* a call of TransferFunds at its first statement
Call(fromAccountID, toAccountID, amount, description, notes) ==
    [fromAccountID |-> fromAccountID, toAccountID |-> toAccountID,
     amount |-> amount, description |-> description, notes |-> notes,
     fromAccount |-> ZeroAccount, toAccount |-> ZeroAccount,
     stmts |-> <<>>, tx |-> NoTx,
     pc |-> "validate", err |-> Nil]

NoCall == [Call(0, 0, 0, "", "") EXCEPT !.pc = "idle"]

\* return err
ReturnErr(call, err) == [call EXCEPT !.pc = "returned", !.err = err]

TransferInit ==
    /\ accounts \in AccountTables
    /\ txLog = <<>>
    /\ atStart = [accounts |-> accounts, txLog |-> txLog]
    /\ \E f, t \in AccountIDs, a \in TransferAmounts,
          d \in Descriptions, n \in NotesTexts :
          xfer = Call(f, t, a, d, n)
    /\ peer = NoCall
    /\ hidden = {} /\ lastCall = NoAccountCall

\* the two checks of the arguments, the amount checked first
TransferFunds_Validate_AmountFirst ==
    /\ xfer.pc = "validate"
    /\ xfer' =
          IF xfer.amount <= 0
          THEN ReturnErr(xfer, Errorf(ErrInvalidTransferAmount,
                                      {ErrInvalidTransferAmount}))
          ELSE IF xfer.fromAccountID = xfer.toAccountID
          THEN ReturnErr(xfer, Errorf(ErrSameAccountTransfer,
                                      {ErrSameAccountTransfer}))
          ELSE [xfer EXCEPT !.pc = "sender"]
    /\ UNCHANGED <<accounts, txLog, atStart, peer, matcherVars, normVars,
                   loaderVars, runVars, acctVars, binlogVars>>

\* the two checks of the arguments
TransferFunds_Validate ==
    /\ xfer.pc = "validate"
    /\ xfer' =
          IF xfer.fromAccountID = xfer.toAccountID
          THEN ReturnErr(xfer, Errorf(ErrSameAccountTransfer,
                                      {ErrSameAccountTransfer}))
          ELSE IF xfer.amount <= 0
          THEN ReturnErr(xfer, Errorf(ErrInvalidTransferAmount,
                                      {ErrInvalidTransferAmount}))
          ELSE [xfer EXCEPT !.pc = "sender"]
    /\ UNCHANGED <<accounts, txLog, atStart, peer, matcherVars, normVars,
                   loaderVars, runVars, acctVars, binlogVars>>

\* the sender's account is read and checked
TransferFunds_Sender ==
    /\ xfer.pc = "sender"
    /\ \E fault \in BOOLEAN :
          LET r == GetAccountByID(accounts, xfer.fromAccountID, fault) IN
          xfer' = Sent(SELECT,
             IF ~r.err.isNil
             THEN IF ErrorsIs(r.err, ErrNoRows)
                  THEN ReturnErr(xfer,
                          Errorf("TransferFunds: sender %w (ID: %d)",
                                 {ErrAccountNotFound}))
                  ELSE ReturnErr(xfer,
                          Errorf("TransferFunds: failed to get sender account (ID: %d): %w",
                                 r.err.wraps))
             ELSE IF r.acc.IsDeleted
             THEN ReturnErr(xfer,
                     Errorf("TransferFunds: sender %w (ID: %d)",
                            {ErrAccountInactive}))
             ELSE IF r.acc.Balance < xfer.amount
             THEN ReturnErr(xfer,
                     Errorf("TransferFunds: sender %w (ID: %d, Balance: %.2f, Amount: %.2f)",
                            {ErrInsufficientFunds}))
             ELSE [xfer EXCEPT !.fromAccount = r.acc, !.pc = "receiver"])
    /\ UNCHANGED <<accounts, txLog, atStart, peer, matcherVars, normVars,
                   loaderVars, runVars, acctVars, binlogVars>>

\* the receiver's account is read and checked
TransferFunds_Receiver ==
    /\ xfer.pc = "receiver"
    /\ \E fault \in BOOLEAN :
          LET r == GetAccountByID(accounts, xfer.toAccountID, fault) IN
          xfer' = Sent(SELECT,
             IF ~r.err.isNil
             THEN IF ErrorsIs(r.err, ErrNoRows)
                  THEN ReturnErr(xfer,
                          Errorf("TransferFunds: receiver %w (ID: %d)",
                                 {ErrAccountNotFound}))
                  ELSE ReturnErr(xfer,
                          Errorf("TransferFunds: failed to get receiver account (ID: %d): %w",
                                 r.err.wraps))
             ELSE IF r.acc.IsDeleted
             THEN ReturnErr(xfer,
                     Errorf("TransferFunds: receiver %w (ID: %d)",
                            {ErrAccountInactive}))
             ELSE [xfer EXCEPT !.toAccount = r.acc, !.pc = "debit"])
    /\ UNCHANGED <<accounts, txLog, atStart, peer, matcherVars, normVars,
                   loaderVars, runVars, acctVars, binlogVars>>

\* the sender's balance is decremented
TransferFunds_Debit ==
    /\ xfer.pc = "debit"
    /\ \E fault \in BOOLEAN :
          LET r == AdjustAccountBalance(accounts, xfer.fromAccountID,
                                        0 - xfer.amount, fault) IN
          /\ accounts' = r.tbl
          /\ xfer' = Sent(UPDATE,
                IF ~r.err.isNil
                THEN ReturnErr(xfer,
                        Errorf("TransferFunds: failed to decrement sender's balance (ID: %d): %w",
                               r.err.wraps))
                ELSE [xfer EXCEPT !.pc = "credit"])
    /\ UNCHANGED <<txLog, atStart, peer, matcherVars, normVars,
                   loaderVars, runVars, acctVars, binlogVars>>

\* the receiver's balance is incremented
TransferFunds_Credit ==
    /\ xfer.pc = "credit"
    /\ \E fault \in BOOLEAN :
          LET r == AdjustAccountBalance(accounts, xfer.toAccountID,
                                        xfer.amount, fault) IN
          /\ accounts' = r.tbl
          /\ xfer' = Sent(UPDATE,
                IF ~r.err.isNil
                THEN ReturnErr(xfer,
                        Errorf("TransferFunds: failed to increment receiver's balance (ID: %d): %w",
                               r.err.wraps))
                ELSE [xfer EXCEPT !.pc = "log"])
    /\ UNCHANGED <<txLog, atStart, peer, matcherVars, normVars,
                   loaderVars, runVars, acctVars, binlogVars>>

\* the transaction is logged and the call returns nil
TransferFunds_Log ==
    /\ xfer.pc = "log"
    /\ \E fault \in BOOLEAN :
          LET r == CreateTransactionWithNotes(txLog,
                      NullInt64(xfer.fromAccountID, TRUE),
                      NullInt64(xfer.toAccountID, TRUE), TRANSFER,
                      xfer.amount, NullString(xfer.description),
                      NullString(xfer.notes), fault) IN
          /\ txLog' = r.log
          /\ xfer' = Sent(INSERT,
                IF ~r.err.isNil
                THEN ReturnErr(xfer,
                        Errorf("TransferFunds: failed to log transaction: %w",
                               r.err.wraps))
                ELSE ReturnErr(xfer, Nil))
    /\ UNCHANGED <<accounts, atStart, peer, matcherVars, normVars,
                   loaderVars, runVars, acctVars, binlogVars>>

(***************************************************************************)
(* Two calls of the service's TransferFunds at the same time, on two       *)
(* goroutines that share the connection pool.  One call runs and the       *)
(* other is suspended between two of its statements; Yield changes which.  *)
(***************************************************************************)
\* the sender both calls draw on
SharedSender == 1

TransferTwoInit ==
    /\ accounts \in AccountTables
    /\ txLog = <<>>
    /\ atStart = [accounts |-> accounts, txLog |-> txLog]
    /\ \E t1, t2 \in AccountIDs \ {SharedSender}, a1, a2 \in TransferAmounts :
          /\ xfer = Call(SharedSender, t1, a1, "", "")
          /\ peer = Call(SharedSender, t2, a2, "", "")
    /\ hidden = {} /\ lastCall = NoAccountCall

\* the scheduler runs the other goroutine
Yield ==
    /\ peer.pc # "idle"
    /\ xfer' = peer
    /\ peer' = xfer
    /\ UNCHANGED <<accounts, txLog, atStart, matcherVars, normVars,
                   loaderVars, runVars, acctVars, binlogVars>>

(***************************************************************************)
(* TransferFunds of the standalone program (CRUD.go).  Its statements run  *)
(* in one sql.Tx: they read and write the transaction's view of the two    *)
(* tables, which Commit makes the tables and the deferred Rollback drops.  *)
(***************************************************************************)
\* sql.ErrNoRows, as Row.Scan returns it
SqlErrNoRows == Errorf(ErrNoRows, {ErrNoRows})

\* tx.QueryRow("SELECT ... FROM accounts WHERE account_id = ?").Scan
QueryRowScan(tbl, accountID, fault) ==
    IF fault THEN [row |-> NoRow, err |-> Errorf(ErrDriver, {ErrDriver})]
    ELSE IF tbl[accountID].exists THEN [row |-> tbl[accountID], err |-> Nil]
    ELSE [row |-> NoRow, err |-> SqlErrNoRows]

\* tx.Exec("UPDATE accounts SET balance = balance + ? WHERE account_id = ?")
ExecUpdate(tbl, accountID, change, fault) ==
    IF fault THEN [tbl |-> tbl, err |-> Errorf(ErrDriver, {ErrDriver})]
    ELSE IF tbl[accountID].exists
    THEN [tbl |-> [tbl EXCEPT ![accountID].Balance = @ + change], err |-> Nil]
    ELSE [tbl |-> tbl, err |-> Nil]

\* a call of the standalone TransferFunds at its first statement
CRUDCall(fromAccountID, toAccountID, amount, description, notes) ==
    [Call(fromAccountID, toAccountID, amount, description, notes)
        EXCEPT !.pc = "c_validate"]

\* return err, with the deferred tx.Rollback()
RollbackErr(call, err) ==
    Sent(ROLLBACK, ReturnErr([call EXCEPT !.tx = NoTx], err))

\* the two checks of the arguments
CRUD_Validate ==
    /\ xfer.pc = "c_validate"
    /\ xfer' =
          IF xfer.fromAccountID = xfer.toAccountID
          THEN ReturnErr(xfer, Errorf(ErrSameAccountTransfer,
                                      {ErrSameAccountTransfer}))
          ELSE IF xfer.amount <= 0
          THEN ReturnErr(xfer, Errorf(ErrInvalidTransferAmount,
                                      {ErrInvalidTransferAmount}))
          ELSE [xfer EXCEPT !.pc = "c_begin"]
    /\ UNCHANGED <<accounts, txLog, atStart, peer, matcherVars, normVars,
                   loaderVars, runVars, acctVars, binlogVars>>

\* db.Begin()
CRUD_Begin ==
    /\ xfer.pc = "c_begin"
    /\ \E fault \in BOOLEAN :
          xfer' = Sent(BEGIN,
             IF fault
             THEN ReturnErr(xfer,
                     Errorf("TransferFunds: failed to begin transaction: %w",
                            {ErrDriver}))
             ELSE [xfer EXCEPT !.pc = "c_sender",
                               !.tx = [open |-> TRUE, accounts |-> accounts,
                                       txLog |-> txLog]])
    /\ UNCHANGED <<accounts, txLog, atStart, peer, matcherVars, normVars,
                   loaderVars, runVars, acctVars, binlogVars>>

\* the sender's row is read and checked
CRUD_Sender ==
    /\ xfer.pc = "c_sender"
    /\ \E fault \in BOOLEAN :
          LET r == QueryRowScan(xfer.tx.accounts, xfer.fromAccountID, fault)
              call == Sent(SELECT, xfer)
          IN
          xfer' =
             IF ~r.err.isNil
             THEN IF r.err = SqlErrNoRows
                  THEN RollbackErr(call,
                          Errorf("TransferFunds: sender %w (ID: %d)",
                                 {ErrAccountNotFound}))
                  ELSE RollbackErr(call,
                          Errorf("TransferFunds: failed to query sender account (ID: %d): %w",
                                 r.err.wraps))
             ELSE IF r.row.IsDeleted
             THEN RollbackErr(call,
                     Errorf("TransferFunds: sender %w (ID: %d)",
                            {ErrAccountInactive}))
             ELSE IF r.row.Balance < xfer.amount
             THEN RollbackErr(call,
                     Errorf("TransferFunds: sender %w (ID: %d, Balance: %.2f, Amount: %.2f)",
                            {ErrInsufficientFunds}))
             ELSE [call EXCEPT !.pc = "c_receiver"]
    /\ UNCHANGED <<accounts, txLog, atStart, peer, matcherVars, normVars,
                   loaderVars, runVars, acctVars, binlogVars>>

\* the receiver's row is read and checked
CRUD_Receiver ==
    /\ xfer.pc = "c_receiver"
    /\ \E fault \in BOOLEAN :
          LET r == QueryRowScan(xfer.tx.accounts, xfer.toAccountID, fault)
              call == Sent(SELECT, xfer)
          IN
          xfer' =
             IF ~r.err.isNil
             THEN IF r.err = SqlErrNoRows
                  THEN RollbackErr(call,
                          Errorf("TransferFunds: receiver %w (ID: %d)",
                                 {ErrAccountNotFound}))
                  ELSE RollbackErr(call,
                          Errorf("TransferFunds: failed to query receiver account (ID: %d): %w",
                                 r.err.wraps))
             ELSE IF r.row.IsDeleted
             THEN RollbackErr(call,
                     Errorf("TransferFunds: receiver %w (ID: %d)",
                            {ErrAccountInactive}))
             ELSE [call EXCEPT !.pc = "c_debit"]
    /\ UNCHANGED <<accounts, txLog, atStart, peer, matcherVars, normVars,
                   loaderVars, runVars, acctVars, binlogVars>>

\* the sender's balance is decremented in the transaction
CRUD_Debit ==
    /\ xfer.pc = "c_debit"
    /\ \E fault \in BOOLEAN :
          LET r == ExecUpdate(xfer.tx.accounts, xfer.fromAccountID,
                              0 - xfer.amount, fault)
              call == Sent(UPDATE, xfer)
          IN
          xfer' =
             IF ~r.err.isNil
             THEN RollbackErr(call,
                     Errorf("TransferFunds: failed to decrement sender's balance (ID: %d): %w",
                            r.err.wraps))
             ELSE [call EXCEPT !.tx.accounts = r.tbl, !.pc = "c_credit"]
    /\ UNCHANGED <<accounts, txLog, atStart, peer, matcherVars, normVars,
                   loaderVars, runVars, acctVars, binlogVars>>

\* the receiver's balance is incremented in the transaction
CRUD_Credit ==
    /\ xfer.pc = "c_credit"
    /\ \E fault \in BOOLEAN :
          LET r == ExecUpdate(xfer.tx.accounts, xfer.toAccountID,
                              xfer.amount, fault)
              call == Sent(UPDATE, xfer)
          IN
          xfer' =
             IF ~r.err.isNil
             THEN RollbackErr(call,
                     Errorf("TransferFunds: failed to increment receiver's balance (ID: %d): %w",
                            r.err.wraps))
             ELSE [call EXCEPT !.tx.accounts = r.tbl, !.pc = "c_log"]
    /\ UNCHANGED <<accounts, txLog, atStart, peer, matcherVars, normVars,
                   loaderVars, runVars, acctVars, binlogVars>>

\* the transaction is logged in the transaction
CRUD_Log ==
    /\ xfer.pc = "c_log"
    /\ \E fault \in BOOLEAN :
          LET r == CreateTransactionWithNotes(xfer.tx.txLog,
                      NullInt64(xfer.fromAccountID, TRUE),
                      NullInt64(xfer.toAccountID, TRUE), TRANSFER,
                      xfer.amount, NullString(xfer.description),
                      NullString(xfer.notes), fault)
              call == Sent(INSERT, xfer)
          IN
          xfer' =
             IF ~r.err.isNil
             THEN RollbackErr(call,
                     Errorf("TransferFunds: failed to log transaction: %w",
                            r.err.wraps))
             ELSE [call EXCEPT !.tx.txLog = r.log, !.pc = "c_commit"]
    /\ UNCHANGED <<accounts, txLog, atStart, peer, matcherVars, normVars,
                   loaderVars, runVars, acctVars, binlogVars>>

\* tx.Commit(), and the call returns nil
CRUD_Commit ==
    /\ xfer.pc = "c_commit"
    /\ \E fault \in BOOLEAN :
          LET call == Sent(COMMIT, xfer) IN
          IF fault
          THEN /\ xfer' = ReturnErr([call EXCEPT !.tx = NoTx],
                             Errorf("TransferFunds: failed to commit transaction: %w",
                                    {ErrDriver}))
               /\ UNCHANGED <<accounts, txLog>>
          ELSE /\ xfer' = ReturnErr([call EXCEPT !.tx = NoTx], Nil)
               /\ accounts' = xfer.tx.accounts
               /\ txLog' = xfer.tx.txLog
    /\ UNCHANGED <<atStart, peer, matcherVars, normVars, loaderVars,
                   runVars, acctVars, binlogVars>>

\* a call of either TransferFunds
TransferCopiesInit ==
    /\ accounts \in AccountTables
    /\ txLog = <<>>
    /\ atStart = [accounts |-> accounts, txLog |-> txLog]
    /\ \E f, t \in AccountIDs, a \in TransferAmounts,
          d \in Descriptions, n \in NotesTexts :
          xfer \in { Call(f, t, a, d, n), CRUDCall(f, t, a, d, n) }
    /\ peer = NoCall
    /\ hidden = {} /\ lastCall = NoAccountCall

(***************************************************************************)
(* The account functions around soft deletion.  Each is one statement      *)
(* sent to the database; a call is one step.  hidden records which         *)
(* accounts a SoftDeleteAccount call has reported deleted with no          *)
(* UndeleteAccount call having reported them active since.                 *)
(***************************************************************************)
HolderNames == { "Alice", "Carol" }
BalanceChanges == { 0 - 50, 50 }

\* the rows of the table with is_deleted = FALSE
ActiveIDs(tbl) ==
    { id \in AccountIDs : tbl[id].exists /\ ~tbl[id].IsDeleted }

\* the models.Account that Scan fills from a row
AccountOf(tbl, id) ==
    [AccountID |-> id, AccountHolder |-> tbl[id].AccountHolder,
     Balance |-> tbl[id].Balance, IsDeleted |-> tbl[id].IsDeleted]

\* UPDATE accounts SET is_deleted = TRUE WHERE account_id = ? AND
\* is_deleted = FALSE
SoftDeleteAccount(tbl, accountID, fault) ==
    IF fault
    THEN [tbl |-> tbl, rowsAffected |-> 0,
          err |-> Errorf("SoftDeleteAccount: %w", {ErrDriver})]
    ELSE IF accountID \in ActiveIDs(tbl)
    THEN [tbl |-> [tbl EXCEPT ![accountID].IsDeleted = TRUE],
          rowsAffected |-> 1, err |-> Nil]
    ELSE [tbl |-> tbl, rowsAffected |-> 0,
          err |-> Errorf("SoftDeleteAccount: no active account found", {})]

\* UPDATE accounts SET is_deleted = FALSE WHERE account_id = ? AND
\* is_deleted = TRUE
UndeleteAccount(tbl, accountID, fault) ==
    IF fault
    THEN [tbl |-> tbl, rowsAffected |-> 0,
          err |-> Errorf("UndeleteAccount: %w", {ErrDriver})]
    ELSE IF tbl[accountID].exists /\ tbl[accountID].IsDeleted
    THEN [tbl |-> [tbl EXCEPT ![accountID].IsDeleted = FALSE],
          rowsAffected |-> 1, err |-> Nil]
    ELSE [tbl |-> tbl, rowsAffected |-> 0,
          err |-> Errorf("UndeleteAccount: no soft-deleted account found",
                         {})]

\* the orders in which a SELECT without ORDER BY may return the ids
RowOrders(ids) ==
    { s \in [1..Cardinality(ids) -> ids] :
         \A a, b \in 1..Cardinality(ids) : a # b => s[a] # s[b] }

\* SELECT ... FROM accounts WHERE is_deleted = FALSE, the rows in order
GetAllAccounts(tbl, order, fault) ==
    IF fault THEN [all |-> <<>>, err |-> Errorf("GetAllAccounts: %w",
                                                {ErrDriver})]
    ELSE LET active == SelectSeq(order, LAMBDA id : id \in ActiveIDs(tbl)) IN
         [all |-> [k \in 1..Len(active) |-> AccountOf(tbl, active[k])],
          err |-> Nil]

\* SUM(balance) over the rows of ids
RECURSIVE SumBalance(_, _)
SumBalance(tbl, ids) ==
    IF ids = {} THEN 0
    ELSE LET id == CHOOSE x \in ids : TRUE IN
         tbl[id].Balance + SumBalance(tbl, ids \ {id})

\* SELECT SUM(balance) FROM accounts, with every row
TotalBalance_All(tbl, fault) ==
    IF fault
    THEN [total |-> 0,
          err |-> Errorf("CalculateTotalBalanceOfActiveAccounts: Scan failed: %w",
                         {ErrDriver})]
    ELSE [total |-> SumBalance(tbl, { id \in AccountIDs : tbl[id].exists }),
          err |-> Nil]

\* CalculateTotalBalanceOfActiveAccounts: SELECT SUM(balance) FROM accounts
\* WHERE is_deleted = FALSE; a NULL sum is returned as 0
TotalBalance(tbl, fault) ==
    IF fault
    THEN [total |-> 0,
          err |-> Errorf("CalculateTotalBalanceOfActiveAccounts: Scan failed: %w",
                         {ErrDriver})]
    ELSE [total |-> SumBalance(tbl, ActiveIDs(tbl)), err |-> Nil]

\* UPDATE accounts SET account_holder = ? WHERE account_id = ?
UpdateAccountHolderName(tbl, accountID, newHolderName, fault) ==
    IF fault
    THEN [tbl |-> tbl, rowsAffected |-> 0,
          err |-> Errorf("UpdateAccountHolderName: %w", {ErrDriver})]
    ELSE IF tbl[accountID].exists
    THEN [tbl |-> [tbl EXCEPT ![accountID].AccountHolder = newHolderName],
          rowsAffected |-> 1, err |-> Nil]
    ELSE [tbl |-> tbl, rowsAffected |-> 0, err |-> Nil]

\* the functions that change is_deleted
DeletionOps == { "SoftDeleteAccount", "UndeleteAccount" }

\* the record of a call: the function, its account, the error returned
\* and, for a call that changes is_deleted, the row as the call found it
AccountCall(op, accountID, err) ==
    [NoAccountCall EXCEPT !.op = op, !.accountID = accountID, !.err = err,
                          !.row = IF op \in DeletionOps
                                  THEN accounts[accountID] ELSE NoRow]

\* the table holds active accounts, none was ever soft-deleted
AccountsInit ==
    /\ accounts \in { tbl \in AccountTables : ActiveIDs(tbl) = {1, 2} }
    /\ txLog = <<>>
    /\ atStart = [accounts |-> accounts, txLog |-> txLog]
    /\ xfer = NoCall
    /\ peer = NoCall
    /\ hidden = {}
    /\ lastCall = NoAccountCall

Call_SoftDeleteAccount ==
    /\ \E id \in AccountIDs, fault \in BOOLEAN :
          LET r == SoftDeleteAccount(accounts, id, fault) IN
          /\ accounts' = r.tbl
          /\ hidden' = IF r.err.isNil THEN hidden \cup {id} ELSE hidden
          /\ lastCall' = AccountCall("SoftDeleteAccount", id, r.err)
    /\ UNCHANGED <<txLog, atStart, xfer, peer, matcherVars, normVars,
                   loaderVars, runVars, binlogVars>>

Call_UndeleteAccount ==
    /\ \E id \in AccountIDs, fault \in BOOLEAN :
          LET r == UndeleteAccount(accounts, id, fault) IN
          /\ accounts' = r.tbl
          /\ hidden' = IF r.err.isNil THEN hidden \ {id} ELSE hidden
          /\ lastCall' = AccountCall("UndeleteAccount", id, r.err)
    /\ UNCHANGED <<txLog, atStart, xfer, peer, matcherVars, normVars,
                   loaderVars, runVars, binlogVars>>

Call_GetAccountByID ==
    /\ \E id \in AccountIDs, fault \in BOOLEAN :
          LET r == GetAccountByID(accounts, id, fault) IN
          lastCall' = [AccountCall("GetAccountByID", id, r.err)
                          EXCEPT !.acc = r.acc]
    /\ UNCHANGED <<accounts, hidden>>
    /\ UNCHANGED <<txLog, atStart, xfer, peer, matcherVars, normVars,
                   loaderVars, runVars, binlogVars>>

Call_GetAllAccounts ==
    /\ \E order \in RowOrders({ id \in AccountIDs : accounts[id].exists }),
          fault \in BOOLEAN :
          LET r == GetAllAccounts(accounts, order, fault) IN
          lastCall' = [AccountCall("GetAllAccounts", 3, r.err)
                          EXCEPT !.all = r.all]
    /\ UNCHANGED <<accounts, hidden>>
    /\ UNCHANGED <<txLog, atStart, xfer, peer, matcherVars, normVars,
                   loaderVars, runVars, binlogVars>>

Call_CalculateTotalBalance ==
    /\ \E fault \in BOOLEAN :
          LET r == TotalBalance(accounts, fault) IN
          lastCall' =
             [AccountCall("CalculateTotalBalanceOfActiveAccounts", 3, r.err)
                 EXCEPT !.total = r.total]
    /\ UNCHANGED <<accounts, hidden>>
    /\ UNCHANGED <<txLog, atStart, xfer, peer, matcherVars, normVars,
                   loaderVars, runVars, binlogVars>>

Call_AdjustAccountBalance ==
    /\ \E id \in AccountIDs, change \in BalanceChanges, fault \in BOOLEAN :
          LET r == AdjustAccountBalance(accounts, id, change, fault) IN
          /\ r.tbl[id].Balance \in Balances
          /\ accounts' = r.tbl
          /\ lastCall' = AccountCall("AdjustAccountBalance", id, r.err)
    /\ UNCHANGED hidden
    /\ UNCHANGED <<txLog, atStart, xfer, peer, matcherVars, normVars,
                   loaderVars, runVars, binlogVars>>

Call_UpdateAccountHolderName ==
    /\ \E id \in AccountIDs, name \in HolderNames, fault \in BOOLEAN :
          LET r == UpdateAccountHolderName(accounts, id, name, fault) IN
          /\ accounts' = r.tbl
          /\ lastCall' = AccountCall("UpdateAccountHolderName", id, r.err)
    /\ UNCHANGED hidden
    /\ UNCHANGED <<txLog, atStart, xfer, peer, matcherVars, normVars,
                   loaderVars, runVars, binlogVars>>

(***************************************************************************)
(* The binlog consumer: the event loop of main, the goroutine that waits   *)
(* for SIGINT or SIGTERM, and the streamer of the replication library      *)
(* between them.  GetEvent is a select over the streamer's channel of      *)
(* events, its channel of errors and the context; BinlogSyncer.Close       *)
(* stops the stream and leaves ErrSyncClosed on the channel of errors.     *)
(***************************************************************************)
Signals == { "SIGINT", "SIGTERM" }

EventTypes ==
    { "ROTATE_EVENT", "QUERY_EVENT", "WRITE_ROWS_EVENTv2",
      "UPDATE_ROWS_EVENTv2", "DELETE_ROWS_EVENTv2" }

ErrSyncClosed == "sync was closed"
Canceled == "context canceled"

\* the capacity of sigCh, make(chan os.Signal, 1)
SigChCap == 1

\* what the loop logs for an event of the type
HandleEvent(eventType) ==
    CASE eventType = "ROTATE_EVENT" -> "Rotated"
      [] eventType = "QUERY_EVENT" -> "Query"
      [] eventType = "WRITE_ROWS_EVENTv2" -> "INSERT"
      [] eventType = "UPDATE_ROWS_EVENTv2" -> "UPDATE"
      [] eventType = "DELETE_ROWS_EVENTv2" -> "DELETE"
      [] OTHER -> "UNKNOWN"

\* the process runs: main has neither returned nor called log.Fatalf
ProcessRuns == mpc \in { "getevent", "dispatch" }

BinlogInit ==
    /\ sigCh = <<>>
    /\ hpc = "wait"
    /\ mpc = "getevent"
    /\ ctxDone = FALSE
    /\ closed = FALSE
    /\ ch = <<>>
    /\ ech = <<>>
    /\ ev = "none"
    /\ handled = <<>>

BinlogIdle ==
    /\ sigCh = <<>>
    /\ hpc = "idle"
    /\ mpc = "idle"
    /\ ctxDone = FALSE
    /\ closed = FALSE
    /\ ch = <<>>
    /\ ech = <<>>
    /\ ev = "none"
    /\ handled = <<>>

\* the process is sent a signal; signal.Notify drops it when sigCh is full
Signal ==
    /\ ProcessRuns
    /\ hpc = "wait"
    /\ \E s \in Signals :
          sigCh' = IF Len(sigCh) < SigChCap THEN Append(sigCh, s) ELSE sigCh
    /\ sigCh' # sigCh
    /\ UNCHANGED <<hpc, mpc, ctxDone, closed, ch, ech, ev, handled>>
    /\ UNCHANGED <<matcherVars, normVars, loaderVars, runVars, transferVars>>

\* the server's next binlog event reaches the streamer
ServerEvent ==
    /\ ProcessRuns /\ ~closed
    /\ Len(ch) + Len(handled) + (IF mpc = "dispatch" THEN 1 ELSE 0)
          < MaxEvents
    /\ \E e \in EventTypes : ch' = Append(ch, e)
    /\ UNCHANGED <<sigCh, hpc, mpc, ctxDone, closed, ech, ev, handled>>
    /\ UNCHANGED <<matcherVars, normVars, loaderVars, runVars, transferVars>>

\* <-sigCh
HandlerReceive ==
    /\ ProcessRuns
    /\ hpc = "wait" /\ sigCh # <<>>
    /\ sigCh' = Tail(sigCh)
    /\ hpc' = "close"
    /\ UNCHANGED <<mpc, ctxDone, closed, ch, ech, ev, handled>>
    /\ UNCHANGED <<matcherVars, normVars, loaderVars, runVars, transferVars>>

\* syncer.Close()
HandlerClose ==
    /\ ProcessRuns
    /\ hpc = "close"
    /\ closed' = TRUE
    /\ ech' = Append(ech, ErrSyncClosed)
    /\ hpc' = "cancel"
    /\ UNCHANGED <<sigCh, mpc, ctxDone, ch, ev, handled>>
    /\ UNCHANGED <<matcherVars, normVars, loaderVars, runVars, transferVars>>

\* cancel()
HandlerCancel ==
    /\ ProcessRuns
    /\ hpc = "cancel"
    /\ ctxDone' = TRUE
    /\ hpc' = "done"
    /\ UNCHANGED <<sigCh, mpc, closed, ch, ech, ev, handled>>
    /\ UNCHANGED <<matcherVars, normVars, loaderVars, runVars, transferVars>>

\* streamer.GetEvent(ctx) receives an event
GetEvent_Event ==
    /\ mpc = "getevent"
    /\ ch # <<>>
    /\ ev' = Head(ch)
    /\ ch' = Tail(ch)
    /\ mpc' = "dispatch"
    /\ UNCHANGED <<sigCh, hpc, ctxDone, closed, ech, handled>>
    /\ UNCHANGED <<matcherVars, normVars, loaderVars, runVars, transferVars>>

\* streamer.GetEvent(ctx) receives an error of the stream, which is not
\* context.Canceled: log.Fatalf
GetEvent_Error ==
    /\ mpc = "getevent"
    /\ ech # <<>>
    /\ ech' = Tail(ech)
    /\ mpc' = IF Head(ech) = Canceled THEN "returned" ELSE "fatal"
    /\ UNCHANGED <<sigCh, hpc, ctxDone, closed, ch, ev, handled>>
    /\ UNCHANGED <<matcherVars, normVars, loaderVars, runVars, transferVars>>

\* streamer.GetEvent(ctx) finds the context canceled and returns ctx.Err():
\* the loop returns
GetEvent_Canceled ==
    /\ mpc = "getevent"
    /\ ctxDone
    /\ mpc' = "returned"
    /\ UNCHANGED <<sigCh, hpc, ctxDone, closed, ch, ech, ev, handled>>
    /\ UNCHANGED <<matcherVars, normVars, loaderVars, runVars, transferVars>>

\* the event is dumped and logged by its type
Dispatch ==
    /\ mpc = "dispatch"
    /\ handled' = Append(handled, HandleEvent(ev))
    /\ ev' = "none"
    /\ mpc' = "getevent"
    /\ UNCHANGED <<sigCh, hpc, ctxDone, closed, ch, ech>>
    /\ UNCHANGED <<matcherVars, normVars, loaderVars, runVars, transferVars>>

(***************************************************************************)
(* The specifications: a run of the matcher (Spec), a run of the loader    *)
(* (SpecLoad), a call of the normalizer (SpecNormalize) and a whole run of *)
(* either caller (SpecRun).  In each, the variables of the others stay     *)
(* idle.                                                                   *)
(***************************************************************************)
\* the frame of a run that does not exist
IdleFrame ==
    [dbTxs |-> <<>>, csvTxs |-> <<>>, processedDBTx |-> {},
     processedCSVTx |-> {}, foundInBoth |-> <<>>, mismatchedAmounts |-> <<>>,
     onlyInDB |-> <<>>, onlyInCSV |-> <<>>, i |-> 1, pc |-> "idle",
     report |-> <<>>, caller |-> "none"]

\* reconcileTransactions is called on its own, and once
RunIdle ==
    /\ caller = "none"
    /\ table = [ok |-> FALSE, rows |-> {}]
    /\ other = IdleFrame

\* no matcher run is in progress
MatcherIdle ==
    /\ dbTxs = <<>>
    /\ csvTxs = <<>>
    /\ processedDBTx = {}
    /\ processedCSVTx = {}
    /\ foundInBoth = <<>>
    /\ mismatchedAmounts = <<>>
    /\ onlyInDB = <<>>
    /\ onlyInCSV = <<>>
    /\ i = 1
    /\ pc = "idle"
    /\ report = <<>>

\* no normalizer call of its own is in progress
NormIdle ==
    /\ normIn = [dbType |-> <<>>, fromID |-> Null, toID |-> Null]
    /\ normOut = [returned |-> FALSE, value |-> <<>>]

\* no load is in progress
LoaderIdle ==
    /\ file = [exists |-> FALSE, lines |-> <<>>]
    /\ reader = NewReader
    /\ transactions = NilSlice
    /\ warnings = <<>>
    /\ loadResult = NoResult
    /\ lpc = "idle"

\* no call of TransferFunds is in progress
TransferIdle ==
    /\ accounts = [id \in AccountIDs |-> NoRow]
    /\ txLog = <<>>
    /\ atStart = [accounts |-> accounts, txLog |-> txLog]
    /\ xfer = NoCall
    /\ peer = NoCall
    /\ hidden = {} /\ lastCall = NoAccountCall

Init == MatcherInit /\ NormIdle /\ LoaderIdle /\ RunIdle /\ TransferIdle
    /\ BinlogIdle

Next ==
    \/ PrintTitle
    \/ SkipProcessed
    \/ MatchExact
    \/ MatchTypeOnly
    \/ MatchNone
    \/ EndMatch
    \/ OnlyInDB
    \/ OnlyInCSV
    \/ PrintReport

Spec == Init /\ [][Next]_vars

InitLoad ==
    LoaderInit /\ MatcherIdle /\ NormIdle /\ RunIdle /\ TransferIdle
    /\ BinlogIdle

NextLoad ==
    \/ OpenFails
    \/ Open
    \/ ReadHeader
    \/ HeaderEOF
    \/ HeaderFails
    \/ RecordEOF
    \/ RecordFails
    \/ SkipMalformed
    \/ SkipInvalidAmount
    \/ AppendRecord

SpecLoad == InitLoad /\ [][NextLoad]_vars

InitNormalize ==
    NormInit /\ MatcherIdle /\ LoaderIdle /\ RunIdle /\ TransferIdle
    /\ BinlogIdle

NextNormalize == Normalize

SpecNormalize == InitNormalize /\ [][NextNormalize]_vars

\* the ids of the rows fetched are distinct (the table assigns them), so
\* the outer loop never meets a transaction already processed and
\* SkipProcessed is never enabled in a whole run
InitRun == RunInit /\ NormIdle /\ other = IdleFrame /\ TransferIdle
    /\ BinlogIdle

NextRun ==
    \/ MainLoad
    \/ MainLoadFatal
    \/ MainFetchFatal
    \/ MainFetch
    \/ ServiceTitle
    \/ ServiceLoad
    \/ ServiceLoadFatal
    \/ ServiceFetchFatal
    \/ ServiceFetch
    \/ NextLoad
    \/ PrintTitle
    \/ MatchExact
    \/ MatchTypeOnly
    \/ MatchNone
    \/ EndMatch
    \/ OnlyInDB
    \/ OnlyInCSV
    \/ PrintReport

SpecRun == InitRun /\ [][NextRun]_vars

\* n ledger transactions of the two types, their distinct ids in any order
MixedDBInputs(n) ==
    { [k \in 1..n |->
         [TransactionID   |-> ids[k],
          FromAccountID   |-> kinds[k].FromAccountID,
          ToAccountID     |-> kinds[k].ToAccountID,
          TransactionType |-> kinds[k].TransactionType,
          Amount          |-> amts[k]]] :
      ids \in Permutations(1..n), kinds \in [1..n -> LedgerKinds],
      amts \in [1..n -> Amounts] }

\* n external records of the two types, their distinct ids in any order
MixedCSVInputs(n) ==
    { [k \in 1..n |->
         [ExternalID |-> ExternalIDName[ids[k]],
          Amount     |-> amts[k],
          Type       |-> types[k]]] :
      ids \in Permutations(1..n), types \in [1..n -> CSVTypes],
      amts \in [1..n -> CSVAmounts] }

\* the ledger transactions of db whose normalized type is t, in their order
LedgerOfType(db, t) ==
    SelectSeq(db, LAMBDA r :
        normalizeDBTransactionType(r.TransactionType, r.FromAccountID,
                                   r.ToAccountID) = t)

\* the external records of csv whose type is t, in their order
ExternalOfType(csv, t) == SelectSeq(csv, LAMBDA r : r.Type = t)

\* reconcileTransactions is called on some inputs, and is to be called a
\* second time on what is left of them when the records of all types but
\* one are taken out
MixedInit ==
    /\ \E n \in 0..MaxMixedRecords : \E k \in 0..(MaxMixedRecords - n) :
       \E db \in MixedDBInputs(n) : \E csv \in MixedCSVInputs(k) :
       \E t \in CSVTypes :
          /\ Running(StartFrame("main", db, csv))
          /\ other = StartFrame("main", LedgerOfType(db, t),
                                ExternalOfType(csv, t))
    /\ table = [ok |-> FALSE, rows |-> {}]

\* the first call has returned; its frame is kept and the second call
\* begins
CallAgain ==
    /\ pc = "done"
    /\ other.pc = "start"
    /\ Switch

\* a call of the matcher and, after it, a call on the records of one type
InitMixed == MixedInit /\ NormIdle /\ LoaderIdle /\ TransferIdle /\ BinlogIdle

NextMixed ==
    \/ CallAgain
    \/ PrintTitle
    \/ MatchExact
    \/ MatchTypeOnly
    \/ MatchNone
    \/ EndMatch
    \/ OnlyInDB
    \/ OnlyInCSV
    \/ PrintReport

SpecMixed == InitMixed /\ [][NextMixed]_vars

\* two runs side by side; the ledger ids of a run are distinct, so
\* SkipProcessed is never enabled
InitTwo == TwoInit /\ NormIdle /\ LoaderIdle /\ TransferIdle /\ BinlogIdle

NextTwo ==
    \/ Switch
    \/ PrintTitle
    \/ MatchExact
    \/ MatchTypeOnly
    \/ MatchNone
    \/ EndMatch
    \/ OnlyInDB
    \/ OnlyInCSV
    \/ PrintReport

SpecTwo == InitTwo /\ [][NextTwo]_vars

\* the two copies side by side: the two matchers on the same inputs, or a
\* load by the loader of the service, to set against what
\* loadExternalTransactions returns
InitCopies ==
    \/ CopiesInit /\ NormIdle /\ LoaderIdle /\ TransferIdle /\ BinlogIdle
    \/ InitLoad

NextCopies ==
    \/ NextTwo
    \/ NextLoad

SpecCopies == InitCopies /\ [][NextCopies]_vars

\* a call of the service's TransferFunds
InitTransfer ==
    TransferInit /\ MatcherIdle /\ NormIdle /\ LoaderIdle /\ RunIdle
    /\ BinlogIdle

NextTransfer ==
    \/ TransferFunds_Validate
    \/ TransferFunds_Sender
    \/ TransferFunds_Receiver
    \/ TransferFunds_Debit
    \/ TransferFunds_Credit
    \/ TransferFunds_Log

SpecTransfer == InitTransfer /\ [][NextTransfer]_vars

\* the binlog consumer from the start of its event loop
InitBinlog ==
    /\ BinlogInit
    /\ MatcherIdle /\ NormIdle /\ LoaderIdle /\ RunIdle /\ TransferIdle

NextBinlog ==
    \/ Signal
    \/ ServerEvent
    \/ HandlerReceive
    \/ HandlerClose
    \/ HandlerCancel
    \/ GetEvent_Event
    \/ GetEvent_Error
    \/ GetEvent_Canceled
    \/ Dispatch

SpecBinlog == InitBinlog /\ [][NextBinlog]_vars

\* calls of the account functions, one after the other
InitAccounts ==
    AccountsInit /\ MatcherIdle /\ NormIdle /\ LoaderIdle /\ RunIdle
    /\ BinlogIdle

NextAccounts ==
    \/ Call_SoftDeleteAccount
    \/ Call_UndeleteAccount
    \/ Call_GetAccountByID
    \/ Call_GetAllAccounts
    \/ Call_CalculateTotalBalance
    \/ Call_AdjustAccountBalance
    \/ Call_UpdateAccountHolderName

SpecAccounts == InitAccounts /\ [][NextAccounts]_vars

\* a run of the matcher on transfers; the ids are distinct, so
\* SkipProcessed has no step here
InitTransfers ==
    /\ TransfersInit
    /\ NormIdle /\ LoaderIdle /\ RunIdle /\ TransferIdle /\ BinlogIdle

NextTransfers ==
    \/ PrintTitle
    \/ MatchExact
    \/ MatchTypeOnly
    \/ MatchNone
    \/ EndMatch
    \/ OnlyInDB
    \/ OnlyInCSV
    \/ PrintReport

SpecTransfers == InitTransfers /\ [][NextTransfers]_vars

\* two calls of the service's TransferFunds, interleaved
InitTransferTwo ==
    /\ TransferTwoInit
    /\ MatcherIdle /\ NormIdle /\ LoaderIdle /\ RunIdle /\ BinlogIdle

NextTransferTwo == NextTransfer \/ Yield

SpecTransferTwo == InitTransferTwo /\ [][NextTransferTwo]_vars

\* a call of the service's TransferFunds or of the standalone program's
InitTransferCopies ==
    TransferCopiesInit /\ MatcherIdle /\ NormIdle /\ LoaderIdle /\ RunIdle
    /\ BinlogIdle

NextTransferCopies ==
    \/ NextTransfer
    \/ CRUD_Validate
    \/ CRUD_Begin
    \/ CRUD_Sender
    \/ CRUD_Receiver
    \/ CRUD_Debit
    \/ CRUD_Credit
    \/ CRUD_Log
    \/ CRUD_Commit

SpecTransferCopies == InitTransferCopies /\ [][NextTransferCopies]_vars

\* a run is one thread of one process: it takes its next step as long as
\* it has one
FairSpecRun == SpecRun /\ WF_vars(NextRun)

(***************************************************************************)
(* Properties of the matcher.                                              *)
(***************************************************************************)
Done == pc = "done"

DistinctDBIDs ==
    \A a, b \in 1..Len(dbTxs) :
        a # b => dbTxs[a].TransactionID # dbTxs[b].TransactionID

DistinctCSVIDs ==
    \A a, b \in 1..Len(csvTxs) :
        a # b => csvTxs[a].ExternalID # csvTxs[b].ExternalID

\* the number of entries of bucket that carry the ledger id
DBOccurrences(bucket, id) ==
    Cardinality({ k \in 1..Len(bucket) : bucket[k].dbID = id })

\* the number of entries of bucket that carry the external id
CSVOccurrences(bucket, id) ==
    Cardinality({ k \in 1..Len(bucket) : bucket[k].csvID = id })

\* C1: when the matcher has finished on a ledger sequence with pairwise
\* distinct transaction ids (and any external sequence), every ledger id
\* occurs exactly once in matched, mismatchedAmount and onlyLedger together.
C1_LedgerPartition ==
    (Done /\ DistinctDBIDs) =>
        \A k \in 1..Len(dbTxs) :
            DBOccurrences(foundInBoth, dbTxs[k].TransactionID)
          + DBOccurrences(mismatchedAmounts, dbTxs[k].TransactionID)
          + DBOccurrences(onlyInDB, dbTxs[k].TransactionID) = 1

\* a finished run with distinct ledger ids that filled all three ledger
\* buckets
C1_Witness ==
    /\ Done /\ DistinctDBIDs
    /\ Len(foundInBoth) > 0 /\ Len(mismatchedAmounts) > 0

\* C2: when the matcher has finished on an external sequence with pairwise
\* distinct externalIds (and any ledger sequence), every external id occurs
\* exactly once in matched, mismatchedAmount and onlyExternal together.
C2_ExternalPartition ==
    (Done /\ DistinctCSVIDs) =>
        \A k \in 1..Len(csvTxs) :
            CSVOccurrences(foundInBoth, csvTxs[k].ExternalID)
          + CSVOccurrences(mismatchedAmounts, csvTxs[k].ExternalID)
          + CSVOccurrences(onlyInCSV, csvTxs[k].ExternalID) = 1

\* a finished run with distinct external ids, a repeated ledger id, a pair
\* and an unmatched external record
C2_Witness ==
    /\ Done /\ DistinctCSVIDs /\ ~DistinctDBIDs
    /\ Len(foundInBoth) + Len(mismatchedAmounts) > 0
    /\ Len(onlyInCSV) > 0

\* the pairs <<ledger position, external position>> of a bucket of pairs
PairsOf(bucket) == [k \in 1..Len(bucket) |-> <<bucket[k].dbIdx, bucket[k].csvIdx>>]

\* the positions of a bucket of unmatched records
DBIdxOf(bucket) == [k \in 1..Len(bucket) |-> bucket[k].dbIdx]
CSVIdxOf(bucket) == [k \in 1..Len(bucket) |-> bucket[k].csvIdx]

Min(S) == CHOOSE x \in S : \A y \in S : x <= y

\* ledger record l and external record k have the same normalized type
SameType(l, k) == NormalizedType(dbTxs[l]) = csvTxs[k].Type

\* ... and equal amounts
SameTypeAndAmount(l, k) ==
    SameType(l, k) /\ AmountEq(dbTxs[l].Amount, csvTxs[k].Amount)

\* the positions of seq, in order, that are in S
RECURSIVE PositionsIn(_, _)
PositionsIn(n, S) ==
    IF n = 0 THEN <<>>
    ELSE IF n \in S THEN Append(PositionsIn(n - 1, S), n)
    ELSE PositionsIn(n - 1, S)

(***************************************************************************)
(* The two-pass procedure of the specification: all exact first-fit        *)
(* matches in ledger order, and only then the type-only first-fit matches  *)
(* in ledger order of the ledger transactions left.                        *)
(***************************************************************************)
RECURSIVE TwoPassExact(_, _)
TwoPassExact(l, st) ==
    IF l > Len(dbTxs) THEN st
    ELSE LET c == { k \in 1..Len(csvTxs) :
                      k \notin st.csvUsed /\ SameTypeAndAmount(l, k) } IN
         IF c = {} THEN TwoPassExact(l + 1, st)
         ELSE TwoPassExact(l + 1,
                [st EXCEPT !.csvUsed = @ \cup {Min(c)},
                           !.dbUsed = @ \cup {l},
                           !.matched = Append(@, <<l, Min(c)>>)])

RECURSIVE TwoPassType(_, _)
TwoPassType(l, st) ==
    IF l > Len(dbTxs) THEN st
    ELSE LET c == { k \in 1..Len(csvTxs) :
                      k \notin st.csvUsed /\ SameType(l, k) } IN
         IF l \in st.dbUsed \/ c = {} THEN TwoPassType(l + 1, st)
         ELSE TwoPassType(l + 1,
                [st EXCEPT !.csvUsed = @ \cup {Min(c)},
                           !.dbUsed = @ \cup {l},
                           !.mismatched = Append(@, <<l, Min(c)>>)])

NothingUsed ==
    [csvUsed |-> {}, dbUsed |-> {}, matched |-> <<>>, mismatched |-> <<>>]

TwoPass == TwoPassType(1, TwoPassExact(1, NothingUsed))

(***************************************************************************)
(* The procedure with one pass over the ledger: each ledger transaction,   *)
(* in ledger order, takes its first exact fit among the external records   *)
(* whose id is not consumed, or else at once its first type-only fit among *)
(* them, before the next ledger transaction is looked at.  A ledger        *)
(* transaction whose id is already consumed is passed over.                *)
(***************************************************************************)
RECURSIVE OnePass(_, _)
OnePass(l, st) ==
    IF l > Len(dbTxs) THEN st
    ELSE LET free == { k \in 1..Len(csvTxs) :
                         csvTxs[k].ExternalID \notin st.csvUsed }
             exact == { k \in free : SameTypeAndAmount(l, k) }
             typed == { k \in free : SameType(l, k) }
         IN
         IF dbTxs[l].TransactionID \in st.dbUsed THEN OnePass(l + 1, st)
         ELSE IF exact # {} THEN
             OnePass(l + 1,
                [st EXCEPT !.csvUsed = @ \cup {csvTxs[Min(exact)].ExternalID},
                           !.dbUsed = @ \cup {dbTxs[l].TransactionID},
                           !.matched = Append(@, <<l, Min(exact)>>)])
         ELSE IF typed # {} THEN
             OnePass(l + 1,
                [st EXCEPT !.csvUsed = @ \cup {csvTxs[Min(typed)].ExternalID},
                           !.dbUsed = @ \cup {dbTxs[l].TransactionID},
                           !.mismatched = Append(@, <<l, Min(typed)>>)])
         ELSE OnePass(l + 1, st)

\* the four buckets are those of the procedure that ended in st; used ids
\* are positions (byPosition) or ids
BucketsAre(st, byPosition) ==
    /\ PairsOf(foundInBoth) = st.matched
    /\ PairsOf(mismatchedAmounts) = st.mismatched
    /\ DBIdxOf(onlyInDB) = PositionsIn(Len(dbTxs),
          { l \in 1..Len(dbTxs) :
              (IF byPosition THEN l ELSE dbTxs[l].TransactionID) \notin st.dbUsed })
    /\ CSVIdxOf(onlyInCSV) = PositionsIn(Len(csvTxs),
          { k \in 1..Len(csvTxs) :
              (IF byPosition THEN k ELSE csvTxs[k].ExternalID) \notin st.csvUsed })

\* C3 as stated: when the matcher has finished (on inputs with distinct
\* ids), its four buckets are those of the two-pass procedure.
C3_TwoPassAsStated ==
    (Done /\ DistinctDBIDs /\ DistinctCSVIDs) => BucketsAre(TwoPass, TRUE)

\* C3 amended: when the matcher has finished, its four buckets are those of
\* the one-pass procedure, in which the type-only scan of a ledger
\* transaction runs right after its own exact scan has failed.
C3_OnePass ==
    Done => BucketsAre(OnePass(1, NothingUsed), FALSE)

\* a finished run in which the type-only pairing of an earlier ledger
\* transaction took the external record that a later one matches exactly
C3_Witness ==
    /\ Done /\ DistinctDBIDs /\ DistinctCSVIDs
    /\ \E a \in 1..Len(mismatchedAmounts) : \E b \in 1..Len(onlyInDB) :
          /\ mismatchedAmounts[a].dbIdx < onlyInDB[b].dbIdx
          /\ SameTypeAndAmount(onlyInDB[b].dbIdx, mismatchedAmounts[a].csvIdx)

\* the entries of the two buckets of pairs
PairEntries ==
    { foundInBoth[k] : k \in 1..Len(foundInBoth) } \cup
    { mismatchedAmounts[k] : k \in 1..Len(mismatchedAmounts) }

\* ledger record l and external record k are a pair of bucket
Paired(bucket, l, k) ==
    \E a \in 1..Len(bucket) : bucket[a].dbIdx = l /\ bucket[a].csvIdx = k

\* the id of external record k was consumed by a ledger record before l
CSVConsumedBefore(k, l) ==
    \E e \in PairEntries : e.csvID = csvTxs[k].ExternalID /\ e.dbIdx < l

\* the id of ledger record l was consumed by a ledger record before l
DBConsumedBefore(l) ==
    \E e \in PairEntries : e.dbID = dbTxs[l].TransactionID /\ e.dbIdx < l

\* the outer loop has gone past ledger record l
Processed(l) == l \in 1..Len(dbTxs) /\ l < i

\* C4 as stated: when the matcher has finished (on inputs with distinct
\* ids), a ledger transaction and an external record with the same
\* normalized type and equal amounts, neither of which has an earlier
\* candidate that is as good (an exact one), are a matched pair: no
\* type-only pairing takes the external record away.
C4_ExactPriorityAsStated ==
    (Done /\ DistinctDBIDs /\ DistinctCSVIDs) =>
        \A l \in 1..Len(dbTxs) : \A k \in 1..Len(csvTxs) :
            ( /\ SameTypeAndAmount(l, k)
              /\ \A l2 \in 1..(l - 1) : ~SameTypeAndAmount(l2, k)
              /\ \A k2 \in 1..(k - 1) : ~SameTypeAndAmount(l, k2) )
            => Paired(foundInBoth, l, k)

\* C4 amended: a ledger transaction and an external record with the same
\* normalized type and equal amounts are a matched pair, and the ledger
\* transaction is in no mismatched pair, provided that when the ledger
\* transaction is processed the external record is not yet consumed (by an
\* exact or a type-only pairing of an earlier ledger transaction) and no
\* earlier unconsumed external record is an exact match for it too.
C4_ExactPriority ==
    \A l \in 1..Len(dbTxs) : \A k \in 1..Len(csvTxs) :
        ( /\ Processed(l)
          /\ ~DBConsumedBefore(l)
          /\ SameTypeAndAmount(l, k)
          /\ ~CSVConsumedBefore(k, l)
          /\ \A k2 \in 1..(k - 1) :
                ~(SameTypeAndAmount(l, k2) /\ ~CSVConsumedBefore(k2, l)) )
        => ( /\ Paired(foundInBoth, l, k)
             /\ \A a \in 1..Len(mismatchedAmounts) :
                    mismatchedAmounts[a].dbIdx # l )

\* a finished run in which a ledger transaction is matched exactly with an
\* external record although an earlier unconsumed external record has its
\* type (and another amount)
C4_Witness ==
    /\ Done
    /\ \E a \in 1..Len(foundInBoth) :
          \E k2 \in 1..(foundInBoth[a].csvIdx - 1) :
             /\ SameType(foundInBoth[a].dbIdx, k2)
             /\ ~CSVConsumedBefore(k2, foundInBoth[a].dbIdx)

\* C5: the external record of a matched pair is the earliest external
\* record, in input order, whose id is not consumed when the ledger
\* transaction is processed and that has its normalized type and an equal
\* amount; a ledger transaction is in at most one pair, and every pair
\* consumes exactly one external id.
C5_ExactFirstFit ==
    /\ \A a \in 1..Len(foundInBoth) :
          foundInBoth[a].csvIdx =
             Min({ k \in 1..Len(csvTxs) :
                     /\ SameTypeAndAmount(foundInBoth[a].dbIdx, k)
                     /\ ~CSVConsumedBefore(k, foundInBoth[a].dbIdx) })
    /\ \A l \in 1..Len(dbTxs) :
          Cardinality({ e \in PairEntries : e.dbIdx = l }) <= 1
    /\ Cardinality(processedCSVTx) = Len(foundInBoth) + Len(mismatchedAmounts)

\* a state in which two unconsumed external records fit a ledger
\* transaction exactly and it is matched with the earlier of them, which is
\* not the first external record
C5_Witness ==
    \E a \in 1..Len(foundInBoth) :
        /\ foundInBoth[a].csvIdx > 1
        /\ \E k \in (foundInBoth[a].csvIdx + 1)..Len(csvTxs) :
              /\ SameTypeAndAmount(foundInBoth[a].dbIdx, k)
              /\ ~CSVConsumedBefore(k, foundInBoth[a].dbIdx)

\* C6: every matched pair has equal types (the ledger type normalized) and
\* equal amounts.
C6_MatchedPairs ==
    \A a \in 1..Len(foundInBoth) :
        LET e == foundInBoth[a] IN
        /\ e.dbType = NormalizedType(dbTxs[e.dbIdx])
        /\ e.dbType = csvTxs[e.csvIdx].Type
        /\ AmountEq(dbTxs[e.dbIdx].Amount, csvTxs[e.csvIdx].Amount)

\* a state with two matched pairs
C6_Witness == Len(foundInBoth) >= 2

\* C7: every mismatched-amount pair has equal types (the ledger type
\* normalized) and amounts that differ.
C7_MismatchedPairs ==
    \A a \in 1..Len(mismatchedAmounts) :
        LET e == mismatchedAmounts[a] IN
        /\ e.dbType = NormalizedType(dbTxs[e.dbIdx])
        /\ e.dbType = csvTxs[e.csvIdx].Type
        /\ ~AmountEq(dbTxs[e.dbIdx].Amount, csvTxs[e.csvIdx].Amount)

\* a state with a mismatched pair made while an external record with the
\* ledger transaction's type and amount exists, its id already consumed
C7_Witness ==
    \E a \in 1..Len(mismatchedAmounts) : \E k \in 1..Len(csvTxs) :
        /\ SameTypeAndAmount(mismatchedAmounts[a].dbIdx, k)
        /\ CSVConsumedBefore(k, mismatchedAmounts[a].dbIdx)

(***************************************************************************)
(* Properties of the normalizer.                                           *)
(***************************************************************************)
\* s is word (a word in upper case) up to the case of its letters
EqualFold(s, word) ==
    /\ Len(s) = Len(word)
    /\ \A k \in 1..Len(s) :
          \/ s[k] = word[k]
          \/ \E n \in 1..Len(LowerLetters) :
                LowerLetters[n] = s[k] /\ UpperLetters[n] = word[k]

\* v is s with every lower-case letter replaced by its upper-case letter
IsUpperCased(s, v) ==
    /\ Len(v) = Len(s)
    /\ \A k \in 1..Len(s) :
          IF \E n \in 1..Len(LowerLetters) : LowerLetters[n] = s[k]
          THEN \E n \in 1..Len(LowerLetters) :
                  LowerLetters[n] = s[k] /\ UpperLetters[n] = v[k]
          ELSE v[k] = s[k]

\* C8: the value returned follows the mapping table, whatever the case of
\* the letters of the ledger type: DEPOSIT and WITHDRAWAL whatever the
\* accounts; TRANSFER with a from-account only TRANSFER_OUT, with a
\* to-account only TRANSFER_IN, with both INTERNAL_TRANSFER; any other type
\* the input in upper case.
C8_NormalizerTable ==
    normOut.returned =>
        LET t == normIn.dbType
            from == normIn.fromID.Valid
            to == normIn.toID.Valid
            v == normOut.value
        IN
        /\ EqualFold(t, DEPOSIT) => v = DEPOSIT
        /\ EqualFold(t, WITHDRAWAL) => v = WITHDRAWAL
        /\ (EqualFold(t, TRANSFER) /\ from /\ ~to) => v = TRANSFER_OUT
        /\ (EqualFold(t, TRANSFER) /\ ~from /\ to) => v = TRANSFER_IN
        /\ (EqualFold(t, TRANSFER) /\ from /\ to) => v = INTERNAL_TRANSFER
        /\ ( /\ ~EqualFold(t, DEPOSIT) /\ ~EqualFold(t, WITHDRAWAL)
             /\ ~EqualFold(t, TRANSFER) ) => IsUpperCased(t, v)

\* a call on a transfer spelt in mixed case with a to-account only has
\* returned
C8_Witness ==
    /\ normOut.returned
    /\ normIn.dbType = <<"T","r","a","n","s","f","e","r">>
    /\ ~normIn.fromID.Valid /\ normIn.toID.Valid
    /\ normOut.value = TRANSFER_IN

(***************************************************************************)
(* Properties of the loader.                                               *)
(***************************************************************************)
LoadDone == lpc = "done"

\* the data rows of the feed
DataRows == SubSeq(file.lines, 2, Len(file.lines))

\* a row of at least 4 fields whose amount is a number
ValidRow(ln) ==
    ~ln.bareQuote /\ Len(ln.fields) >= 4 /\ RecordAmount(ln.fields).ok

\* a row of fewer than 4 fields
ShortRow(ln) == ~ln.bareQuote /\ Len(ln.fields) < 4

\* a row of at least 4 fields whose amount is no number
BadAmountRow(ln) ==
    ~ln.bareQuote /\ Len(ln.fields) >= 4 /\ ~RecordAmount(ln.fields).ok

\* the records of the valid rows among rows, in their order
RECURSIVE RecordsOfValid(_)
RecordsOfValid(rows) ==
    IF rows = <<>> THEN <<>>
    ELSE LET last == rows[Len(rows)]
             before == RecordsOfValid(SubSeq(rows, 1, Len(rows) - 1))
         IN
         IF ValidRow(last)
         THEN Append(before, ExternalTransaction(last.fields,
                                 RecordAmount(last.fields).value))
         ELSE before

\* C9: a load of a feed with a header of 4 fields whose data rows are valid
\* rows of 4 fields and at least one row of fewer than 4 fields returns the
\* records of the valid rows and no error, with one warning for each short
\* row.
C9_ShortRowSkipped ==
    ( /\ LoadDone
      /\ Len(file.lines) >= 1 /\ file.lines[1] = Header4
      /\ \A k \in 1..Len(DataRows) :
            \/ ShortRow(DataRows[k])
            \/ ValidRow(DataRows[k]) /\ Len(DataRows[k].fields) = 4
      /\ \E k \in 1..Len(DataRows) : ShortRow(DataRows[k]) )
    => ( /\ loadResult.err = "nil"
         /\ loadResult.transactions.elems = RecordsOfValid(DataRows)
         /\ Len(warnings) =
               Cardinality({ k \in 1..Len(DataRows) : ShortRow(DataRows[k]) }) )

\* the lines the loop has read without an error of the reader
RowsRead ==
    IF reader.next <= 2 THEN <<>>
    ELSE SubSeq(file.lines, 2,
                IF LoadDone /\ loadResult.err = "record"
                THEN reader.next - 2 ELSE reader.next - 1)

\* C10: a row whose amount is no number is dropped with a warning and the
\* load goes on: at every point of the loop, and when the load returns
\* without an error, the records loaded are those of the valid rows read
\* so far, in feed order, and the invalid-amount warnings name the rows
\* read so far whose amount is no number; a load that ends with an error
\* of a data row ends at a row whose number of fields is not the
\* header's, never at a row of the header's size whose amount is no number.
C10_BadAmountDropped ==
    /\ (lpc = "records" \/ (LoadDone /\ loadResult.err = "nil"
                                      /\ Len(file.lines) >= 1)) =>
          /\ transactions.elems = RecordsOfValid(RowsRead)
          /\ { warnings[k].line :
                  k \in { n \in 1..Len(warnings) :
                            warnings[n].kind = "invalid amount" } }
               = { k + 1 : k \in { n \in 1..Len(RowsRead) :
                                       BadAmountRow(RowsRead[n]) } }
    /\ (LoadDone /\ loadResult.err = "nil" /\ Len(file.lines) >= 1) =>
          /\ loadResult.transactions = transactions
          /\ RowsRead = DataRows
    /\ (LoadDone /\ loadResult.err = "record") =>
          Len(file.lines[reader.next - 1].fields) # Len(file.lines[1].fields)

\* a load that returned without an error two records, of a row before and
\* of a row after a row whose amount is no number
C10_Witness ==
    /\ LoadDone /\ loadResult.err = "nil"
    /\ Len(loadResult.transactions.elems) = 2
    /\ \E k \in 2..(Len(DataRows) - 1) :
          /\ BadAmountRow(DataRows[k])
          /\ ValidRow(DataRows[k - 1]) /\ ValidRow(DataRows[k + 1])

\* a row of more than 4 fields whose amount is a number
LongRow(ln) == ValidRow(ln) /\ Len(ln.fields) > 4

\* C11: a load of a feed with a header of 4 fields whose data rows are
\* valid rows, at least one of them of more than 4 fields, returns no error
\* and the records made of the first four fields of each row, in feed order.
C11_LongRowAccepted ==
    ( /\ LoadDone
      /\ Len(file.lines) >= 1 /\ file.lines[1] = Header4
      /\ \A k \in 1..Len(DataRows) : ValidRow(DataRows[k])
      /\ \E k \in 1..Len(DataRows) : LongRow(DataRows[k]) )
    => ( /\ loadResult.err = "nil"
         /\ loadResult.transactions.elems = RecordsOfValid(DataRows) )

\* a feed that can be opened and holds no data row: no line at all, or one
\* line that the reader can split
EmptyFeed ==
    /\ file.exists
    /\ Len(file.lines) <= 1
    /\ \A k \in 1..Len(file.lines) : ~file.lines[k].bareQuote

\* C12: a load of a feed that holds no data row, with a header line or
\* without one, returns no error and a slice that is empty and not nil.
C12_EmptyFeedNonNil ==
    (LoadDone /\ EmptyFeed)
    => ( /\ loadResult.err = "nil"
         /\ loadResult.transactions.elems = <<>>
         /\ ~loadResult.transactions.isNil )


(***************************************************************************)
(* Properties of a whole run.                                              *)
(***************************************************************************)
\* the load of the feed has returned without an error
LoadSucceeded == lpc = "done" /\ loadResult.err = "nil"

\* the load of the feed has returned an error
LoadFailed == lpc = "done" /\ loadResult.err # "nil"

\* C13: in a whole run of either caller no line of the report is written
\* before the load of the feed has succeeded, and a run whose load failed
\* goes no further than its abort: it never fetches, matches or prints.
C13_NoReportBeforeLoad ==
    /\ ~LoadSucceeded => report = <<>>
    /\ LoadFailed => pc \in {"load", "exit"}

\* both inputs of the run are loaded: the feed and the ledger
LoadedBoth == LoadSucceeded /\ table.ok

SectionHeaders ==
    <<FoundInBothHeader, MismatchedAmountsHeader, OnlyInDBHeader,
      OnlyInCSVHeader>>

\* the positions of the report that hold the header of a section
HeaderPositions ==
    { k \in 1..Len(report) :
        \E s \in 1..4 : report[k] = TextLine(SectionHeaders[s]) }

\* the lines of the report after position p and before position q
Between(p, q) == SubSeq(report, p + 1, q - 1)

\* the lines a section must hold for its bucket
SectionBody(bucket) ==
    IF bucket = <<>> THEN << [text |-> "  None", item |-> <<>>] >>
    ELSE [k \in 1..Len(bucket) |-> [text |-> "", item |-> <<bucket[k]>>]]

\* the report is complete: the title, the four sections in their order,
\* each with the entries of its bucket or None, and the closing line
CompleteReport ==
    /\ Len(report) >= 10
    /\ report[1] = TextLine(ReportTitle)
    /\ report[Len(report)] = TextLine(ReportEnd)
    /\ Cardinality(HeaderPositions) = 4
    /\ \E p \in [1..4 -> HeaderPositions] :
          /\ p[1] = 2 /\ p[1] < p[2] /\ p[2] < p[3] /\ p[3] < p[4]
          /\ \A s \in 1..4 : report[p[s]] = TextLine(SectionHeaders[s])
          /\ Between(p[1], p[2]) = SectionBody(foundInBoth)
          /\ Between(p[2], p[3]) = SectionBody(mismatchedAmounts)
          /\ Between(p[3], p[4]) = SectionBody(onlyInDB)
          /\ Between(p[4], Len(report)) = SectionBody(onlyInCSV)

\* C14: a whole run of either caller that has loaded the feed and fetched
\* the ledger ends, and it ends with the complete report: four sections in
\* the order matched, mismatched amounts, ledger only, external only, a
\* section without entries printing None.
C14_CompleteReport ==
    /\ [](Done => CompleteReport)
    /\ (LoadedBoth ~> Done)

\* a run that ended with a report all of whose four sections print None
C14_Witness ==
    /\ Done /\ LoadedBoth
    /\ foundInBoth = <<>> /\ mismatchedAmounts = <<>>
    /\ onlyInDB = <<>> /\ onlyInCSV = <<>>
    /\ Len(report) = 10
    /\ \A s \in 1..4 : report[2 * s + 1] = [text |-> "  None", item |-> <<>>]

(***************************************************************************)
(* Properties of the report and of the empty inputs.                       *)
(***************************************************************************)
\* the positions in the ledger of the entries of a bucket
DBOrder(bucket) == [k \in 1..Len(bucket) |-> bucket[k].dbIdx]

\* the positions in the external input of the entries of a bucket
CSVOrder(bucket) == [k \in 1..Len(bucket) |-> bucket[k].csvIdx]

Increasing(s) == \A a, b \in 1..Len(s) : a < b => s[a] < s[b]

\* the entries the report prints, in the order of its lines
RECURSIVE ItemsOf(_)
ItemsOf(lines) ==
    IF lines = <<>> THEN <<>>
    ELSE ItemsOf(SubSeq(lines, 1, Len(lines) - 1)) \o lines[Len(lines)].item

\* C15: when the matcher has printed its report, the matched, the
\* mismatched-amount and the ledger-only section list their ledger
\* transactions in ledger input order and the external-only section lists
\* its records in external input order: the entries printed are those of
\* the four buckets, section after section, and within each bucket the
\* input positions increase.
C15_SectionOrder ==
    Done =>
       /\ ItemsOf(report) =
             foundInBoth \o mismatchedAmounts \o onlyInDB \o onlyInCSV
       /\ Increasing(DBOrder(foundInBoth))
       /\ Increasing(DBOrder(mismatchedAmounts))
       /\ Increasing(DBOrder(onlyInDB))
       /\ Increasing(CSVOrder(onlyInCSV))

\* a report with two ledger-only entries and two external-only entries
C15_Witness ==
    /\ Done
    /\ Len(onlyInDB) >= 2 /\ Len(onlyInCSV) >= 2

\* C17: empty inputs.  With both inputs empty the four buckets are empty;
\* with an empty external input every ledger transaction is in onlyInDB,
\* in ledger order, and there is no pair; with an empty ledger every
\* external record is in onlyInCSV, in input order, and there is no pair.
\* The run ends with its report in each case.
C17_EmptyInputs ==
    Done =>
         /\ (dbTxs = <<>> /\ csvTxs = <<>>) =>
               /\ foundInBoth = <<>> /\ mismatchedAmounts = <<>>
               /\ onlyInDB = <<>> /\ onlyInCSV = <<>>
         /\ csvTxs = <<>> =>
               /\ foundInBoth = <<>> /\ mismatchedAmounts = <<>>
               /\ onlyInCSV = <<>>
               /\ DBOrder(onlyInDB) = [k \in 1..Len(dbTxs) |-> k]
         /\ dbTxs = <<>> =>
               /\ foundInBoth = <<>> /\ mismatchedAmounts = <<>>
               /\ onlyInDB = <<>>
               /\ CSVOrder(onlyInCSV) = [k \in 1..Len(csvTxs) |-> k]
         /\ (dbTxs = <<>> \/ csvTxs = <<>>) => CompleteReport

\* a run on two ledger transactions and no external record that ended
C17_Witness ==
    /\ Done
    /\ csvTxs = <<>> /\ Len(dbTxs) >= 2
    /\ Len(onlyInDB) = Len(dbTxs)

(***************************************************************************)
(* Properties of two runs side by side.                                    *)
(***************************************************************************)
\* the other run has finished too
OtherDone == other.pc = "done"

\* the two runs have the same ordered inputs
SameInputs == other.dbTxs = dbTxs /\ other.csvTxs = csvTxs

\* the two runs have the same four buckets, entry by entry, and the same
\* report
SameOutcome ==
    /\ other.foundInBoth = foundInBoth
    /\ other.mismatchedAmounts = mismatchedAmounts
    /\ other.onlyInDB = onlyInDB
    /\ other.onlyInCSV = onlyInCSV
    /\ other.report = report

\* C16: two runs of reconcileTransactions on the same ordered ledger and
\* the same ordered external input, however their steps interleave, end
\* with identical buckets, entry by entry, and identical reports.
C16_Deterministic ==
    (Done /\ OtherDone /\ other.caller = caller /\ SameInputs) => SameOutcome

\* two finished calls of reconcileTransactions on the same inputs, with a
\* pair and with two external records left over or one ledger record
C16_Witness ==
    /\ Done /\ OtherDone /\ other.caller = caller /\ SameInputs
    /\ caller = "main"
    /\ \/ Len(foundInBoth) + Len(mismatchedAmounts) >= 1
       \/ Len(onlyInCSV) >= 2

C19_NoInterference ==
    /\ processedDBTx = { e.dbID : e \in PairEntries }
    /\ processedCSVTx = { e.csvID : e \in PairEntries }
    /\ Done => BucketsAre(OnePass(1, NothingUsed), FALSE)

\* two runs on different inputs, both in the middle of their loops, each
\* having consumed an external record of the same id
C19_Witness ==
    /\ ~SameInputs
    /\ pc = "match" /\ other.pc = "match"
    /\ processedCSVTx \cap other.processedCSVTx # {}

(***************************************************************************)
(* Properties of TransferFunds.                                            *)
(***************************************************************************)
\* the call has returned
Returned == xfer.pc = "returned"

\* the two tables after a transfer that took effect as a whole
Transferred ==
    /\ accounts =
          [atStart.accounts EXCEPT
              ![xfer.fromAccountID].Balance = @ - xfer.amount,
              ![xfer.toAccountID].Balance = @ + xfer.amount]
    /\ Len(txLog) = Len(atStart.txLog) + 1
    /\ SubSeq(txLog, 1, Len(atStart.txLog)) = atStart.txLog
    /\ LET tx == txLog[Len(txLog)] IN
          /\ tx.TransactionType = TRANSFER
          /\ tx.FromAccountID = NullInt64(xfer.fromAccountID, TRUE)
          /\ tx.ToAccountID = NullInt64(xfer.toAccountID, TRUE)
          /\ tx.Amount = Float(xfer.amount)

\* the two tables are as they were when the call began
Untouched == accounts = atStart.accounts /\ txLog = atStart.txLog

\* C20: a call of the service's TransferFunds is atomic: when it has
\* returned an error the balances and the transaction log are as they were
\* when it began, and when it has returned nil the sender is debited and
\* the receiver credited by the amount and one TRANSFER transaction is
\* logged.
C20_Atomic ==
    Returned => IF xfer.err.isNil THEN Transferred ELSE Untouched

\* the arguments of the call are rejected by the first check
SameAccount == xfer.fromAccountID = xfer.toAccountID

\* the arguments of the call are rejected by the second check
InvalidAmount == ~SameAccount /\ xfer.amount <= 0

\* the call has returned exactly this sentinel error, not wrapped
ReturnedSentinel(e) == xfer.err = Errorf(e, {e})

\* C21: a call of TransferFunds (of the service or of the standalone
\* program) whose two account ids are equal returns ErrSameAccountTransfer,
\* also when the amount is not positive; a call with distinct accounts and
\* amount <= 0 returns ErrInvalidTransferAmount; and in both cases the call
\* returns at once, has sent no statement to the database, and the accounts
\* and the transaction log are as they were.
C21_RejectsBeforeState ==
    /\ (SameAccount \/ InvalidAmount) =>
          /\ xfer.stmts = <<>> /\ ~xfer.tx.open
          /\ Untouched
          /\ xfer.pc \in {"validate", "c_validate", "returned"}
    /\ (Returned /\ SameAccount) => ReturnedSentinel(ErrSameAccountTransfer)
    /\ (Returned /\ InvalidAmount) =>
          ReturnedSentinel(ErrInvalidTransferAmount)

\* a same-account call with a non-positive amount has returned, and so has
\* a call with distinct accounts and a non-positive amount
C21_Witness ==
    /\ Returned
    /\ \/ SameAccount /\ xfer.amount <= 0
       \/ InvalidAmount

\* the arguments of the call pass the two checks
ValidArguments == ~SameAccount /\ xfer.amount > 0

\* no statement of the call failed in the driver
NoDriverError == ~ErrorsIs(xfer.err, ErrDriver)

\* the sender's row as it was when the call began, and the receiver's
SenderRow == atStart.accounts[xfer.fromAccountID]
ReceiverRow == atStart.accounts[xfer.toAccountID]

\* the sender is an active account that holds the amount
SenderGood ==
    SenderRow.exists /\ ~SenderRow.IsDeleted /\ SenderRow.Balance >= xfer.amount

\* the call met an account that has no row: the sender, or the receiver
\* after a sender that passed its checks
MissingAccount ==
    /\ Returned /\ ValidArguments /\ NoDriverError
    /\ \/ ~SenderRow.exists
       \/ SenderGood /\ ~ReceiverRow.exists

\* C22: a call of the service's TransferFunds whose sender or receiver does
\* not exist returns an error that matches ErrAccountNotFound under
\* errors.Is, and no balance is changed.
C22_NotFound ==
    MissingAccount =>
        /\ ErrorsIs(xfer.err, ErrAccountNotFound)
        /\ accounts = atStart.accounts

\* the call met a soft-deleted account: the sender, or the receiver after a
\* sender that passed its checks
DeletedAccount ==
    /\ Returned /\ ValidArguments /\ NoDriverError
    /\ \/ SenderRow.exists /\ SenderRow.IsDeleted
       \/ SenderGood /\ ReceiverRow.exists /\ ReceiverRow.IsDeleted

\* C23: a call of the service's TransferFunds whose sender or receiver is
\* soft-deleted returns an error that matches ErrAccountInactive under
\* errors.Is, and no balance is changed.
C23_Inactive ==
    DeletedAccount =>
        /\ ErrorsIs(xfer.err, ErrAccountInactive)
        /\ accounts = atStart.accounts

(***************************************************************************)
(* Properties of soft deletion.                                            *)
(***************************************************************************)
\* the last call was of this function and returned no error
Succeeded(op) == lastCall.op = op /\ lastCall.err.isNil

\* the accounts that the active-account reads must show
Visible == { id \in AccountIDs : accounts[id].exists } \ hidden

\* the ids of the accounts that GetAllAccounts returned
ListedIDs == { lastCall.all[k].AccountID : k \in 1..Len(lastCall.all) }

\* C24: while an account is hidden (SoftDeleteAccount has succeeded on it
\* and UndeleteAccount has not succeeded since) GetAccountByID returns an
\* error for it, GetAllAccounts does not list it and
\* CalculateTotalBalanceOfActiveAccounts does not count its balance; a
\* successful UndeleteAccount leaves the balance and the holder name as
\* they were and makes the account visible to the three reads again.
C24_SoftDeleteHides ==
    /\ lastCall.op = "GetAccountByID" =>
          IF lastCall.accountID \in Visible
          THEN ErrorsIs(lastCall.err, ErrDriver) \/
                  /\ lastCall.err.isNil
                  /\ lastCall.acc = AccountOf(accounts, lastCall.accountID)
          ELSE ~lastCall.err.isNil
    /\ Succeeded("GetAllAccounts") =>
          /\ ListedIDs = Visible
          /\ \A k \in 1..Len(lastCall.all) :
                lastCall.all[k] = AccountOf(accounts, lastCall.all[k].AccountID)
    /\ Succeeded("CalculateTotalBalanceOfActiveAccounts") =>
          lastCall.total = SumBalance(accounts, Visible)
    /\ Succeeded("SoftDeleteAccount") =>
          /\ lastCall.accountID \in hidden
          /\ accounts[lastCall.accountID] =
                [lastCall.row EXCEPT !.IsDeleted = TRUE]
    /\ Succeeded("UndeleteAccount") =>
          /\ lastCall.accountID \in Visible
          /\ accounts[lastCall.accountID].Balance = lastCall.row.Balance
          /\ accounts[lastCall.accountID].AccountHolder =
                lastCall.row.AccountHolder

\* the total was computed while one account was hidden and one visible
C24_Witness ==
    /\ Succeeded("CalculateTotalBalanceOfActiveAccounts")
    /\ hidden # {} /\ Visible # {}
    /\ \E id \in hidden : accounts[id].Balance > 0

(***************************************************************************)
(* Properties of the binlog consumer.                                      *)
(***************************************************************************)
\* the goroutine of the handler has received a signal
SignalReceived == hpc \in { "close", "cancel", "done" }

\* C25: once SIGINT or SIGTERM has been received the event loop does not
\* leave through log.Fatalf, whatever the interleaving of the handler
\* (syncer.Close(), then cancel()) with the pending GetEvent call.
C25_GracefulShutdown == SignalReceived => mpc # "fatal"

(***************************************************************************)
(* Further properties of the matcher.                                      *)
(***************************************************************************)
\* C26: when the matcher has finished on inputs with distinct ids, no
\* ledger transaction of onlyLedger has a normalized type equal to the type
\* of an external record of onlyExternal.
C26_MaximalByType ==
    (Done /\ DistinctDBIDs /\ DistinctCSVIDs) =>
        \A a \in 1..Len(onlyInDB), b \in 1..Len(onlyInCSV) :
            NormalizedType(dbTxs[onlyInDB[a].dbIdx]) # onlyInCSV[b].csvType

\* a finished run on distinct ids that left a ledger transaction and an
\* external record unmatched and paired another ledger transaction by type
C26_Witness ==
    /\ Done /\ DistinctDBIDs /\ DistinctCSVIDs
    /\ Len(onlyInDB) > 0 /\ Len(onlyInCSV) > 0
    /\ Len(mismatchedAmounts) > 0

\* C27: when the matcher has finished, on any external sequence, one that
\* repeats an externalId included, the external records listed in matched,
\* mismatchedAmount and onlyExternal are as many as the external records of
\* the input.
C27_NoExternalLost ==
    Done =>
        Len(foundInBoth) + Len(mismatchedAmounts) + Len(onlyInCSV)
           = Len(csvTxs)

(***************************************************************************)
(* Properties of concurrent transfers.                                     *)
(***************************************************************************)
\* one of the two calls has returned nil
SomeReturnedNil ==
    \E c \in {xfer, peer} : c.pc = "returned" /\ c.err.isNil

\* C28: with two calls of the service's TransferFunds that draw on the same
\* sender, started on balances that are not negative, and under every
\* interleaving of their statements, the sender's balance is not negative
\* once a call has returned nil.
C28_NoOverdraw ==
    SomeReturnedNil => accounts[SharedSender].Balance >= 0

\* the ledger transaction is a TRANSFER, in any case of its letters, with
\* neither a from-account nor a to-account
BareTransfer(dbTx) ==
    /\ EqualFold(dbTx.TransactionType, TRANSFER)
    /\ ~dbTx.FromAccountID.Valid /\ ~dbTx.ToAccountID.Valid

\* the entries of the two buckets of pairs
AllPairs == foundInBoth \o mismatchedAmounts

\* C29: a ledger TRANSFER with neither a from-account nor a to-account
\* normalizes to TRANSFER, and every pair it is in, exact or by type, is
\* with an external record whose type is TRANSFER.
C29_BareTransfer ==
    /\ \A k \in 1..Len(dbTxs) :
          BareTransfer(dbTxs[k]) => NormalizedType(dbTxs[k]) = TRANSFER
    /\ \A k \in 1..Len(AllPairs) :
          BareTransfer(dbTxs[AllPairs[k].dbIdx]) =>
             csvTxs[AllPairs[k].csvIdx].Type = TRANSFER

\* a finished run in which one such transfer is paired and another is left
\* in onlyLedger beside an external TRANSFER_OUT left in onlyExternal
C29_Witness ==
    /\ Done
    /\ \E k \in 1..Len(AllPairs) : BareTransfer(dbTxs[AllPairs[k].dbIdx])
    /\ \E a \in 1..Len(onlyInDB) : BareTransfer(dbTxs[onlyInDB[a].dbIdx])
    /\ \E b \in 1..Len(onlyInCSV) : onlyInCSV[b].csvType = TRANSFER_OUT

\* where a run has put the records of type t: each ledger transaction and
\* each external record, named by its id, with its bucket and its partner
ClassOfType(f, t) ==
    { <<"foundInBoth", f.foundInBoth[a].dbID, f.foundInBoth[a].csvID>> :
        a \in { x \in 1..Len(f.foundInBoth) : f.foundInBoth[x].csvType = t } }
    \cup
    { <<"mismatchedAmounts", f.mismatchedAmounts[a].dbID,
        f.mismatchedAmounts[a].csvID>> :
        a \in { x \in 1..Len(f.mismatchedAmounts) :
                  f.mismatchedAmounts[x].csvType = t } }
    \cup
    { <<"onlyInDB", f.onlyInDB[a].dbID, "">> :
        a \in { x \in 1..Len(f.onlyInDB) :
                  Len(LedgerOfType(<<f.dbTxs[f.onlyInDB[x].dbIdx]>>, t)) = 1 } }
    \cup
    { <<"onlyInCSV", 0, f.onlyInCSV[a].csvID>> :
        a \in { x \in 1..Len(f.onlyInCSV) : f.onlyInCSV[x].csvType = t } }

\* the call that has just returned was on the records of type t of the
\* call before it
SecondCallOn(t) ==
    /\ Done /\ OtherDone
    /\ dbTxs = LedgerOfType(other.dbTxs, t)
    /\ csvTxs = ExternalOfType(other.csvTxs, t)

\* C30: with distinct ids, the call on the records of one type alone puts
\* each of them in the bucket, and with the partner, that the call on the
\* inputs with the records of the other types among them did; so two
\* inputs with the same records of a type, in the same order, classify them
\* alike wherever the records of other types are.
C30_TypesIndependent ==
    \A t \in CSVTypes :
        SecondCallOn(t) =>
            ClassOfType(CurrentFrame, t) = ClassOfType(other, t)

\* a second call that left out an external record which stood before the
\* partner of a ledger transaction, and paired the two all the same
C30_Witness ==
    \E t \in CSVTypes :
        /\ SecondCallOn(t)
        /\ \E a \in 1..Len(other.mismatchedAmounts) :
              /\ other.mismatchedAmounts[a].csvType = t
              /\ other.mismatchedAmounts[a].csvIdx > 1
              /\ other.csvTxs[1].Type # t
        /\ Len(other.csvTxs) > Len(csvTxs)
        /\ \E b \in 1..Len(mismatchedAmounts) :
              mismatchedAmounts[b].csvIdx = 1

=============================================================================
